---------------------------- MODULE Spec2Model ----------------------------
(***************************************************************************)
(* A model of utils/shotcutter: the seamless SmartSegmenter.segment and    *)
(* the concurrent cut_and_upload pipeline on the process-wide pools.       *)
(*                                                                         *)
(* Times (seconds, floats in the source) are exact integer ticks here, so  *)
(* every sum and comparison is exact.                                      *)
(***************************************************************************)
EXTENDS Integers, Sequences, FiniteSets, TLC

(***************************************************************************)
(* Bounds of the model.                                                    *)
(***************************************************************************)
MaxShots == 3
MaxShotDur == 5
MaxMaxDuration == 2
MaxShift == 1
MaxSegs == 2
PvMaxShots == 2
MaxCpuCount == 96
MantissaBits == 3

\* SmartSegmenter.__init__'s default max_duration, used by the end-to-end scenario.
DefaultMaxDuration == 30

\* cutter.MAX_WORKERS = get_max_workers(), at its floor of 2.
MAX_WORKERS == 2

\* The threads of the process that call cut_and_upload concurrently.
Runs == {1, 2}

\* How many segments each call is given: run 1 gets MaxSegs segments while run 2
\* competes with one, or run 1 gets the three segments of the pipeline scenarios
\* while run 2 is called with none.
SegmentCounts == {<<MaxSegs, 1>>, <<3, 0>>}

\* Every segment index of any call.
AllIndexes == UNION {1..n[r] : n \in SegmentCounts, r \in Runs}

\* The value None of the source.
None == 0

VARIABLES
    \* ---- SmartSegmenter.segment ----
    shots,                  \* the argument: a sequence of Shot records
    max_duration,           \* self.max_duration
    seg_pc,                 \* "start" | "loop" | "done"
    shot_i,                 \* the for loop's position, 1-based (enumerate's i + 1)
    segments,               \* the local list of (start, end) tuples; the result at "done"
    current_start,
    accumulated_duration,
    \* ---- cutter: the global pools ----
    GLOBAL_PROCESS_POOL,    \* _GLOBAL_PROCESS_POOL: None or the id of a ProcessPoolExecutor
    GLOBAL_THREAD_POOL,     \* _GLOBAL_THREAD_POOL: None or the id of a ThreadPoolExecutor
    process_pools_created,  \* how many ProcessPoolExecutor objects were constructed (ids 1..n)
    thread_pools_created,   \* how many ThreadPoolExecutor objects were constructed (ids 1..n)
    broken_process_pools,   \* the ProcessPoolExecutor objects that lost a worker process
    \* ---- cut_and_upload, per calling thread ----
    num_segments,           \* total = len(segments), the argument of each call
    pc,                     \* where the call is
    process_pool,           \* the local process_pool handle (None before it is set)
    thread_pool,            \* the local thread_pool handle
    temp_dir,               \* "none" | "exists" | "deleted"
    cut_task,               \* per segment index: "none" | "queued" | "running" | the result's
                            \* status | "broken" | "broken_running" (BrokenProcessPool)
    cut_results,            \* the list cut_results, in collection order
    upload_task,            \* per index: "none" | "queued" | "running" | what the upload call did
    upload_results,         \* the list upload_results, in collection order
    final_results,          \* the returned list
    \* ---- one worker function call: _cut_single_segment or _upload_single_segment ----
    task_kind,              \* "cut" | "upload"
    task_pc,                \* where the call is; "returned" | "raised" at its end
    task_args,              \* the args tuple, as a record
    task_file,              \* the file at output_path / local_path: "absent" | "empty" | "nonempty"
    task_run,               \* what the external operation did (None before it ran)
    task_result,            \* the returned dict (None before the return)
    stage_pc,               \* the collecting loop of the stage: "waiting" | "collected" | "raised"
    stage_results,          \* the stage's result list
    \* ---- one call of process_video or segment_video ----
    pv_fn,                  \* "process_video" | "segment_video"
    pv_pc,                  \* where the call is; "returned" | "raised" at its end
    pv_video,               \* what video_path names: a local file, nothing, a URL
    pv_local_path,          \* local_path ("unset" before handle_video_path returned)
    pv_temp_file,           \* the downloaded temporary file: "none" | "exists" | "removed"
    pv_calls,               \* which of the stages were invoked so far
    pv_result,              \* the returned value (None before the return)
    pv_exception,           \* the exception raised in the call: it left the call when
                            \* pv_pc = "raised", `except Exception as e` caught it
                            \* when pv_pc = "returned" (NoException if none)
    \* ---- the import of cutter.py ----
    os_cpu_count,           \* what os.cpu_count() returns (None if undetermined)
    env_workers,            \* SHOTCUTTER_MAX_WORKERS in the environment
    cfg_pc,                 \* where get_max_workers is; "imported" after the assignment
    cpu_count,              \* the local cpu_count
    workers,                \* the local workers
    max_workers,            \* the global MAX_WORKERS as computed (None before the import)
    process_pool_workers,   \* max_workers of the process pool (None before it is made)
    thread_pool_workers,    \* max_workers of the thread pool
    \* ---- the two segmenters run on one shot list, in floating point ----
    cmp_shots,              \* the shot list given to both
    cmp_max,                \* max_duration of both
    cmp_returned,           \* which of the two calls have returned
    seamless_segments,      \* what utils/shotcutter's segment returned
    legacy_segments,        \* what src/shotcutter's segment returned
    \* ---- one call of _cleanup_pools ----
    cleanup_pc,             \* where the call is ("idle" before it, "done" after it)
    shut_process_pools,     \* the ProcessPoolExecutor objects shutdown() was invoked on
    shut_thread_pools       \* the ThreadPoolExecutor objects shutdown() was invoked on

seg_vars == <<shots, max_duration, seg_pc, shot_i, segments, current_start,
              accumulated_duration>>

pool_vars == <<GLOBAL_PROCESS_POOL, GLOBAL_THREAD_POOL, process_pools_created,
               thread_pools_created, broken_process_pools>>

run_vars == <<num_segments, pc, process_pool, thread_pool, temp_dir, cut_task, cut_results,
              upload_task, upload_results, final_results>>

pipe_vars == <<pool_vars, run_vars>>

task_vars == <<task_kind, task_pc, task_args, task_file, task_run, task_result, stage_pc,
               stage_results>>

pv_vars == <<pv_fn, pv_pc, pv_video, pv_local_path, pv_temp_file, pv_calls, pv_result,
             pv_exception>>

cfg_vars == <<os_cpu_count, env_workers, cfg_pc, cpu_count, workers, max_workers,
              process_pool_workers, thread_pool_workers>>

cmp_vars == <<cmp_shots, cmp_max, cmp_returned, seamless_segments, legacy_segments>>

cleanup_vars == <<cleanup_pc, shut_process_pools, shut_thread_pools>>

\* What the segmenter, the pipeline, a worker function, process_video, the
\* import, the comparison of the segmenters and _cleanup_pools each leave alone.
not_seg_vars == <<pipe_vars, task_vars, pv_vars, cfg_vars, cmp_vars, cleanup_vars>>

not_pipe_vars == <<seg_vars, task_vars, pv_vars, cfg_vars, cmp_vars, cleanup_vars>>

not_task_vars == <<seg_vars, pipe_vars, pv_vars, cfg_vars, cmp_vars, cleanup_vars>>

not_pv_vars == <<pipe_vars, task_vars, cfg_vars, cmp_vars, cleanup_vars>>

not_cfg_vars == <<seg_vars, pipe_vars, task_vars, pv_vars, cmp_vars, cleanup_vars>>

not_cmp_vars == <<seg_vars, pipe_vars, task_vars, pv_vars, cfg_vars, cleanup_vars>>

not_cleanup_vars == <<seg_vars, run_vars, task_vars, pv_vars, cfg_vars, cmp_vars>>

vars == <<seg_vars, pipe_vars, task_vars, pv_vars, cfg_vars, cmp_vars, cleanup_vars>>

(***************************************************************************)
(* The state at import of cutter.py and before any call of cut_and_upload. *)
(***************************************************************************)
SegIndexes(r) == 1..num_segments[r]

\* Every thread is about to call cut_and_upload.
RunsAtCall ==
    /\ pc = [r \in Runs |-> "call"]
    /\ process_pool = [r \in Runs |-> None]
    /\ thread_pool = [r \in Runs |-> None]
    /\ temp_dir = [r \in Runs |-> "none"]
    /\ cut_task = [r \in Runs |-> [i \in SegIndexes(r) |-> "none"]]
    /\ cut_results = [r \in Runs |-> <<>>]
    /\ upload_task = [r \in Runs |-> [i \in SegIndexes(r) |-> "none"]]
    /\ upload_results = [r \in Runs |-> <<>>]
    /\ final_results = [r \in Runs |-> <<>>]

PipeStart ==
    /\ \E n \in SegmentCounts : num_segments = [r \in Runs |-> n[r]]
    /\ GLOBAL_PROCESS_POOL = None
    /\ GLOBAL_THREAD_POOL = None
    /\ process_pools_created = 0
    /\ thread_pools_created = 0
    /\ broken_process_pools = {}
    /\ RunsAtCall

\* An earlier call has made the two pools, which every later call shares.
PoolsMade ==
    /\ GLOBAL_PROCESS_POOL = 1
    /\ GLOBAL_THREAD_POOL = 1
    /\ process_pools_created = 1
    /\ thread_pools_created = 1
    /\ broken_process_pools = {}

\* No worker function is being followed on its own.
TaskIdle ==
    /\ task_kind = "none"
    /\ task_pc = "idle"
    /\ task_args = None
    /\ task_file = "absent"
    /\ task_run = None
    /\ task_result = None
    /\ stage_pc = "waiting"
    /\ stage_results = <<>>

\* cutter.py was imported on a machine of four CPUs with no override, which gives
\* MAX_WORKERS; no pool was made yet.
CfgIdle ==
    /\ os_cpu_count = 4
    /\ env_workers = [set |-> FALSE, text |-> <<>>]
    /\ cfg_pc = "imported"
    /\ cpu_count = 4
    /\ workers = MAX_WORKERS
    /\ max_workers = MAX_WORKERS
    /\ process_pool_workers = None
    /\ thread_pool_workers = None

\* No exception was raised.
NoException == [type |-> "none", message |-> <<>>]

\* The two segmenters are not being compared.
CmpIdle ==
    /\ cmp_shots = <<>>
    /\ cmp_max = DefaultMaxDuration
    /\ cmp_returned = {}
    /\ seamless_segments = <<>>
    /\ legacy_segments = <<>>

\* _cleanup_pools was not called: no pool was shut down.
CleanupIdle ==
    /\ cleanup_pc = "idle"
    /\ shut_process_pools = {}
    /\ shut_thread_pools = {}

\* Neither process_video nor segment_video is being called.
PvIdle ==
    /\ pv_fn = "none"
    /\ pv_pc = "idle"
    /\ pv_video = "none"
    /\ pv_local_path = "unset"
    /\ pv_temp_file = "none"
    /\ pv_calls = {}
    /\ pv_result = None
    /\ pv_exception = NoException

(***************************************************************************)
(* Shot (detector.py) and the shot lists the segmenter is run on.          *)
(***************************************************************************)
Shot(sf, ef, st, et, d) ==
    [start_frame |-> sf, end_frame |-> ef, start_time |-> st, end_time |-> et,
     duration |-> d]

RECURSIVE SumSeq(_)
SumSeq(s) == IF s = <<>> THEN 0 ELSE s[1] + SumSeq(Tail(s))

\* The shot list with durations durs whose first shot is recorded at `shift`
\* and whose shots are `gap` ticks apart; one frame per tick.
ShotsOf(durs, shift, gap) ==
    [k \in 1..Len(durs) |->
        LET st == shift + SumSeq(SubSeq(durs, 1, k - 1)) + (k - 1) * gap
        IN  Shot(st, st + durs[k], st, st + durs[k], durs[k])]

Durations(ss) == [k \in 1..Len(ss) |-> ss[k].duration]

RECURSIVE SeqsUpTo(_, _)
SeqsUpTo(S, n) ==
    IF n = 0 THEN {<<>>}
    ELSE LET shorter == SeqsUpTo(S, n - 1)
         IN  shorter \cup {Append(s, x) : s \in {t \in shorter : Len(t) = n - 1}, x \in S}

ExampleDurations == <<10, 15, 8, 40, 5>>

\* The Shot invariant of the detector's output: ordered, contiguous from 0,
\* duration = end_time - start_time > 0.
ShotInvariant(ss) ==
    /\ \A k \in 1..Len(ss) :
          /\ ss[k].duration = ss[k].end_time - ss[k].start_time
          /\ ss[k].duration > 0
          /\ ss[k].start_time = (IF k = 1 THEN 0 ELSE ss[k - 1].end_time)

(***************************************************************************)
(* SmartSegmenter.segment, one operator per branch of the loop body.  The  *)
(* loop state is [segments, current_start, accumulated_duration].          *)
(***************************************************************************)
LoopState(segs, cs, acc) ==
    [segments |-> segs, current_start |-> cs, accumulated_duration |-> acc]

InitialLoopState == LoopState(<<>>, 0, 0)

\* A faulty FitsCurrent: an exact fit counts as overflow.
FitsCurrentStrict(acc, shot, max) == acc + shot.duration < max

\* A faulty FitsCurrent: one tick too many still fits.
FitsCurrentLoose(acc, shot, max) == acc + shot.duration <= max + 1

\* Case 1's test: the shot fits the segment under construction.
FitsCurrent(acc, shot, max) == acc + shot.duration <= max

\* Case 2's test: the shot alone is longer than max_duration.
IsOversize(shot, max) == shot.duration > max

\* Case 1: absorb the shot.
AbsorbShot(st, shot) ==
    [st EXCEPT !.accumulated_duration = st.accumulated_duration + shot.duration]

\* Case 2's "save the current segment if it has content".
CloseCurrent(st) ==
    IF st.accumulated_duration > 0
    THEN LET current_end == st.current_start + st.accumulated_duration
         IN  LoopState(Append(st.segments, <<st.current_start, current_end>>),
                       current_end, 0)
    ELSE st

\* The while loop of the hard truncation: [segments, shot_start, remaining] at its exit.
RECURSIVE TruncateLoop(_, _, _, _)
TruncateLoop(segs, shot_start, remaining, max) ==
    IF remaining > max
    THEN TruncateLoop(Append(segs, <<shot_start, shot_start + max>>),
                      shot_start + max, remaining - max, max)
    ELSE [segments |-> segs, shot_start |-> shot_start, remaining |-> remaining]

\* A faulty TruncateStart: the chunks start at the shot's recorded start_time.
TruncateStartAtShot(st, shot) == shot.start_time

\* Where the hard truncation starts.
TruncateStart(st, shot) == st.current_start

\* A faulty TruncateRemainder: the remainder chunk is dropped.
TruncateRemainderDropped(t) ==
    LoopState(t.segments, t.shot_start, 0)

\* A faulty TruncateRemainder: the remainder stays open as the segment under
\* construction, so later shots extend it.
TruncateRemainderOpen(t) ==
    LoopState(t.segments, t.shot_start, t.remaining)

\* The remainder of the hard truncation and the reset of the accumulator.
TruncateRemainder(t) ==
    IF t.remaining > 0
    THEN LoopState(Append(t.segments, <<t.shot_start, t.shot_start + t.remaining>>),
                   t.shot_start + t.remaining, 0)
    ELSE LoopState(t.segments, t.shot_start, 0)

\* Case 2: close the current segment, then hard-truncate the oversize shot.
HardTruncate(st, shot, max) ==
    LET closed == CloseCurrent(st)
        t == TruncateLoop(closed.segments, TruncateStart(closed, shot),
                          shot.duration, max)
    IN  TruncateRemainder(t)

\* A faulty StartNewSegment: the new segment starts at the shot's recorded start_time.
StartNewSegmentAtShot(st, shot) ==
    IF st.accumulated_duration > 0
    THEN LoopState(Append(st.segments,
                          <<st.current_start, st.current_start + st.accumulated_duration>>),
                   shot.start_time, shot.duration)
    ELSE LoopState(st.segments, shot.start_time, shot.duration)

\* Case 3: close the current segment and start a new one holding this shot.
StartNewSegment(st, shot) ==
    IF st.accumulated_duration > 0
    THEN LET current_end == st.current_start + st.accumulated_duration
         IN  LoopState(Append(st.segments, <<st.current_start, current_end>>),
                       current_end, shot.duration)
    ELSE LoopState(st.segments, st.current_start, shot.duration)

\* A faulty LoopBody: a shot that does not fit fills the open segment up to
\* max_duration and its rest is carried over, whatever the shot's length.
LoopBodySplitting(st, shot, max) ==
    IF FitsCurrent(st.accumulated_duration, shot, max) THEN AbsorbShot(st, shot)
    ELSE LET t == TruncateLoop(st.segments, st.current_start,
                               st.accumulated_duration + shot.duration, max)
         IN  LoopState(t.segments, t.shot_start, t.remaining)

\* The loop body.
LoopBody(st, shot, max) ==
    IF FitsCurrent(st.accumulated_duration, shot, max) THEN AbsorbShot(st, shot)
    ELSE IF IsOversize(shot, max) THEN HardTruncate(st, shot, max)
    ELSE StartNewSegment(st, shot)

\* A faulty EmitTrailing: the trailing segment is lost.
EmitTrailingLost(st) == st.segments

\* After the loop: the trailing segment.
EmitTrailing(st) ==
    IF st.accumulated_duration > 0
    THEN Append(st.segments,
                <<st.current_start, st.current_start + st.accumulated_duration>>)
    ELSE st.segments

RECURSIVE RunLoop(_, _, _)
RunLoop(st, ss, max) ==
    IF ss = <<>> THEN st ELSE RunLoop(LoopBody(st, Head(ss), max), Tail(ss), max)

\* segment() as a function of its arguments.
segment(ss, max) ==
    IF ss = <<>> THEN <<>> ELSE EmitTrailing(RunLoop(InitialLoopState, ss, max))

(***************************************************************************)
(* segment() as a state machine: one step per shot.                        *)
(***************************************************************************)
CurrentLoopState == LoopState(segments, current_start, accumulated_duration)

SetLoopState(st) ==
    /\ segments' = st.segments
    /\ current_start' = st.current_start
    /\ accumulated_duration' = st.accumulated_duration

SegInputs ==
    {[shots |-> ShotsOf(d, s, 0), max |-> m] :
        d \in SeqsUpTo(0..MaxShotDur, MaxShots), s \in 0..MaxShift, m \in 1..MaxMaxDuration}
    \cup {[shots |-> ShotsOf(ExampleDurations, 0, 0), max |-> DefaultMaxDuration]}

SegStart ==
    /\ seg_pc = "start"
    /\ shot_i = 1
    /\ segments = <<>>
    /\ current_start = 0
    /\ accumulated_duration = 0

SegInit ==
    /\ \E in \in SegInputs : shots = in.shots /\ max_duration = in.max
    /\ SegStart
    /\ PipeStart
    /\ TaskIdle
    /\ PvIdle
    /\ CfgIdle
    /\ CmpIdle
    /\ CleanupIdle

\* `if not shots: return []`
ReturnEmpty ==
    /\ seg_pc = "start"
    /\ shots = <<>>
    /\ seg_pc' = "done"
    /\ UNCHANGED <<shots, max_duration, shot_i, segments, current_start,
                   accumulated_duration>>
    /\ UNCHANGED not_seg_vars

EnterLoop ==
    /\ seg_pc = "start"
    /\ shots # <<>>
    /\ seg_pc' = "loop"
    /\ SetLoopState(InitialLoopState)
    /\ UNCHANGED <<shots, max_duration, shot_i>>
    /\ UNCHANGED not_seg_vars

LoopStep(branch) ==
    /\ seg_pc = "loop"
    /\ shot_i <= Len(shots)
    /\ branch
    /\ SetLoopState(LoopBody(CurrentLoopState, shots[shot_i], max_duration))
    /\ shot_i' = shot_i + 1
    /\ UNCHANGED <<shots, max_duration, seg_pc>>
    /\ UNCHANGED not_seg_vars

Absorb ==
    LoopStep(FitsCurrent(accumulated_duration, shots[shot_i], max_duration))

Truncate ==
    LoopStep(/\ ~FitsCurrent(accumulated_duration, shots[shot_i], max_duration)
             /\ IsOversize(shots[shot_i], max_duration))

StartNew ==
    LoopStep(/\ ~FitsCurrent(accumulated_duration, shots[shot_i], max_duration)
             /\ ~IsOversize(shots[shot_i], max_duration))

Finish ==
    /\ seg_pc = "loop"
    /\ shot_i > Len(shots)
    /\ segments' = EmitTrailing(CurrentLoopState)
    /\ seg_pc' = "done"
    /\ UNCHANGED <<shots, max_duration, shot_i, current_start, accumulated_duration>>
    /\ UNCHANGED not_seg_vars

SegNext == ReturnEmpty \/ EnterLoop \/ Absorb \/ Truncate \/ StartNew \/ Finish

SegSpec == SegInit /\ [][SegNext]_vars

(***************************************************************************)
(* Properties of segment().                                                *)
(***************************************************************************)
SegDone == seg_pc = "done"

SegDuration(seg) == seg[2] - seg[1]

SegDurations(segs) == [k \in 1..Len(segs) |-> SegDuration(segs[k])]

PositiveDurations(ss) == \A k \in 1..Len(ss) : ss[k].duration > 0

\* C2: consecutive segments of the returned list share an exact boundary:
\* segments[i+1].start = segments[i].end, no gap and no overlap, for every shot
\* list and every max_duration > 0.
C2_Seamless ==
    SegDone => \A k \in 1..(Len(segments) - 1) : segments[k + 1][1] = segments[k][2]

\* A run that closed a segment at a shot boundary and hard-truncated a shot whose
\* recorded start_time differs from the close point.
C2_Witness ==
    /\ SegDone
    /\ Len(segments) >= 3
    /\ shots[1].start_time # 0
    /\ \E k \in 2..Len(shots) : IsOversize(shots[k], max_duration)
    /\ \E k \in 1..Len(shots) : ~IsOversize(shots[k], max_duration) /\ shots[k].duration > 0

RuleChunks(from, d, max) ==
    [j \in 1..(d \div max) |-> <<from + (j - 1) * max, from + j * max>>]
    \o (IF d % max > 0 THEN << <<from + (d \div max) * max, from + d>> >> ELSE <<>>)

RuleClosed(st) ==
    IF st.accumulated_duration > 0
    THEN << <<st.current_start, st.current_start + st.accumulated_duration>> >>
    ELSE <<>>

RuleStep(st, d, max) ==
    IF st.accumulated_duration + d <= max
    THEN LoopState(st.segments, st.current_start, st.accumulated_duration + d)
    ELSE IF d > max
    THEN LoopState(st.segments \o RuleClosed(st)
                     \o RuleChunks(st.current_start + st.accumulated_duration, d, max),
                   st.current_start + st.accumulated_duration + d, 0)
    ELSE LoopState(st.segments \o RuleClosed(st),
                   st.current_start + st.accumulated_duration, d)

RECURSIVE RulePass(_, _, _)
RulePass(st, ds, max) ==
    IF ds = <<>> THEN st.segments \o RuleClosed(st)
    ELSE RulePass(RuleStep(st, Head(ds), max), Tail(ds), max)

ExampleSegments == << <<0, 25>>, <<25, 33>>, <<33, 63>>, <<63, 73>>, <<73, 78>> >>

IsExample == Durations(shots) = ExampleDurations /\ max_duration = DefaultMaxDuration

\* C5: for positive durations the returned list is exactly the list of the single
\* left-to-right pass of rules 1-4 (the remainder chunk of an oversize shot is
\* never extended by later shots), and durations [10, 15, 8, 40, 5] with
\* max_duration 30 give [(0,25), (25,33), (33,63), (63,73), (73,78)].
C5_RulePass ==
    (SegDone /\ PositiveDurations(shots)) =>
        /\ segments = RulePass(InitialLoopState, Durations(shots), max_duration)
        /\ IsExample => segments = ExampleSegments

\* The end-to-end scenario has run.
C5_Witness == SegDone /\ IsExample /\ ShotInvariant(shots) /\ Len(segments) = 5

C8_DurationsOnly ==
    SegDone =>
        /\ \A s \in 0..(MaxShift + 1), g \in 0..2 :
              segment(ShotsOf(Durations(shots), s, g), max_duration) = segments
        /\ segments # <<>> => segments[1][1] = 0

\* A list recorded from a non-zero start whose first shot is oversize and which
\* later overflows at a shot boundary.
C8_Witness ==
    /\ SegDone
    /\ shots # <<>>
    /\ shots[1].start_time # 0
    /\ IsOversize(shots[1], max_duration)
    /\ Len(segments) >= 4
    /\ \E k \in 2..Len(shots) :
          shots[k].duration > 0 /\ ~IsOversize(shots[k], max_duration)

\* The boundaries between two consecutive segments of a list.
InnerBoundaries(segs) == {segs[k][2] : k \in 1..(Len(segs) - 1)}

\* The times at which a shot of the list starts or ends.
ShotBoundaries(ss) == {ss[k].start_time : k \in 1..Len(ss)} \cup {ss[k].end_time : k \in 1..Len(ss)}

\* The time b lies strictly inside the shot.
Inside(b, shot) == shot.start_time < b /\ b < shot.end_time

TrimOutcomes == {"ok", "no_file", "empty_file", "nonzero", "timeout", "exception"}

\* What upload_to_oss_from_local can do: return the URL (status 200), return
\* str(result.status) for another status, or raise.
UploadOutcomes == {"url", "status_code", "raise"}

OutputPath(r, index) == <<"temp_dir", r, "segment", index>>

TaskId(name, index) == <<name, index>>

\* The name prefix of run r.
NameOf(r) == r

\* _cut_single_segment(args), given what the subprocess does.
cut_single_segment(output_path, index, trim) ==
    IF trim \in {"ok", "no_file", "empty_file"}
    THEN [index |-> index, path |-> output_path, status |-> "success"]
    ELSE [index |-> index, path |-> None, status |-> "failed"]

\* upload_to_oss_from_local's return value when it does not raise.
upload_to_oss_from_local(task_id, outcome) ==
    IF outcome = "url" THEN <<"https", task_id>> ELSE "status_code"

\* _upload_single_segment(args), given what the upload call does.
upload_single_segment(local_path, task_id, index, outcome) ==
    IF outcome = "raise"
    THEN [index |-> index, task_id |-> task_id, oss_url |-> None, status |-> "failed"]
    ELSE [index |-> index, task_id |-> task_id,
          oss_url |-> upload_to_oss_from_local(task_id, outcome), status |-> "success"]

\* The result a finished cut future holds.
CutFuture(r, i) ==
    [index |-> i,
     path |-> IF cut_task[r][i] = "success" THEN OutputPath(r, i) ELSE None,
     status |-> cut_task[r][i]]

\* A faulty UploadTaskId: the rank among the successfully cut segments.
UploadTaskIdByRank(r, i) ==
    TaskId(NameOf(r), Cardinality({j \in 1..i : cut_task[r][j] = "success"}))

\* `task_id = f"{name}-{result['index']}"` for the cut result of index i.
UploadTaskId(r, i) == TaskId(NameOf(r), i)

\* The result a finished upload future holds.
UploadFuture(r, i) ==
    upload_single_segment(OutputPath(r, i), UploadTaskId(r, i), i, upload_task[r][i])

Indexes(results) == {results[k].index : k \in 1..Len(results)}

RECURSIVE SelectSeq2(_, _)
SelectSeq2(s, status) ==
    IF s = <<>> THEN <<>>
    ELSE IF Head(s).status = status THEN <<Head(s)>> \o SelectSeq2(Tail(s), status)
    ELSE SelectSeq2(Tail(s), status)

RECURSIVE InsertByIndex(_, _)
InsertByIndex(sorted, x) ==
    IF sorted = <<>> THEN <<x>>
    ELSE IF x.index < Head(sorted).index THEN <<x>> \o sorted
    ELSE <<Head(sorted)>> \o InsertByIndex(Tail(sorted), x)

\* sorted(..., key=lambda x: x["index"]): a stable sort.
RECURSIVE SortedByIndex(_)
SortedByIndex(s) ==
    IF s = <<>> THEN <<>>
    ELSE InsertByIndex(SortedByIndex(SubSeq(s, 1, Len(s) - 1)), s[Len(s)])

\* r.pop("status", None)
PopStatus(x) == [index |-> x.index, task_id |-> x.task_id, oss_url |-> x.oss_url]

\* A faulty FinalResults: the results are returned in completion order.
FinalResultsUnsorted(results) ==
    LET ok == SelectSeq2(results, "success")
    IN  [k \in 1..Len(ok) |-> PopStatus(ok[k])]

\* The list cut_and_upload returns: the successful uploads, sorted by index,
\* without their status field.
FinalResults(results) ==
    LET ok == SortedByIndex(SelectSeq2(results, "success"))
    IN  [k \in 1..Len(ok) |-> PopStatus(ok[k])]

(***************************************************************************)
(* One call of a worker function, followed step by step: the external      *)
(* operation runs, the function returns its dict, and the stage's          *)
(* collecting loop takes it from the future.  A text is a sequence of      *)
(* pieces, so the empty text is <<>> and an f-string is a concatenation.   *)
(***************************************************************************)
\* The segments a task is given.
TaskSegments == {<<s, s + d>> : s \in 0..MaxShift, d \in 1..MaxMaxDuration}

\* The args tuples cut_and_upload builds for _cut_single_segment.
CutArgs ==
    {[video_path |-> "video", start |-> seg[1], end |-> seg[2],
      output_path |-> OutputPath(1, i), index |-> i] :
        seg \in TaskSegments, i \in 1..MaxSegs}

\* The args tuples cut_and_upload builds for _upload_single_segment.
UploadArgs ==
    {[local_path |-> OutputPath(1, i), task_id |-> TaskId(NameOf(1), i), index |-> i,
      start |-> seg[1], end |-> seg[2]] :
        seg \in TaskSegments, i \in 1..MaxSegs}

\* What ffmpeg wrote to stderr.
Stderrs == {<<>>, <<"Invalid data found when processing input">>}

\* s[-n:]
LastN(s, n) == IF Len(s) <= n THEN s ELSE SubSeq(s, Len(s) - n + 1, Len(s))

\* The exceptions subprocess.run raises when ffmpeg cannot be started; each
\* carries a message.
TrimExceptions ==
    {[type |-> "FileNotFoundError",
      message |-> <<"[Errno 2] No such file or directory: 'ffmpeg'">>],
     [type |-> "PermissionError",
      message |-> <<"[Errno 13] Permission denied: 'ffmpeg'">>]}

TimeoutExpired ==
    [type |-> "TimeoutExpired",
     message |-> <<"Command '['ffmpeg', ...]' timed out after 300 seconds">>]

\* The classes of the exceptions above that derive from Exception.
ExceptionSubclasses == {"TimeoutExpired", "FileNotFoundError", "PermissionError",
                        "RequestError", "ServerError", "ImportError", "RuntimeError",
                        "BrokenProcessPool"}

\* str(e)
Str(e) == e.message

\* What subprocess.run(cmd, timeout=300) can do, per outcome of the trim: return
\* a CompletedProcess (returncode, stderr) or raise.
TrimRuns(trim) ==
    IF trim \in {"ok", "no_file", "empty_file"}
    THEN {[outcome |-> trim, returncode |-> 0, stderr |-> e, exception |-> NoException] :
             e \in Stderrs}
    ELSE IF trim = "nonzero"
    THEN {[outcome |-> trim, returncode |-> 1, stderr |-> e, exception |-> NoException] :
             e \in Stderrs}
    ELSE IF trim = "timeout"
    THEN {[outcome |-> trim, exception |-> TimeoutExpired]}
    ELSE {[outcome |-> trim, exception |-> e] : e \in TrimExceptions}

\* The file at output_path after the trim.
FileAfter(trim) ==
    IF trim = "ok" THEN "nonempty"
    ELSE IF trim = "empty_file" THEN "empty"
    ELSE "absent"

\* `if result.returncode == 0`
CutSuccessTest(run) == run.returncode = 0

\* The dict of the success branch.
CutSuccess(args) ==
    [index |-> args.index, path |-> args.output_path, start |-> args.start,
     end |-> args.end, status |-> "success"]

\* The dict of the three failure branches.
CutFailed(args, error) ==
    [index |-> args.index, path |-> None, start |-> args.start, end |-> args.end,
     status |-> "failed", error |-> error]

\* A faulty ExceptClause: only OSError is caught, a timeout propagates.
ExceptClauseOSError(e) ==
    IF e.type \in {"FileNotFoundError", "PermissionError"} THEN "exception"
    ELSE "propagate"

\* Which except clause of _cut_single_segment takes the exception.
ExceptClause(e) ==
    IF e.type = "TimeoutExpired" THEN "timeout"
    ELSE IF e.type \in ExceptionSubclasses THEN "exception"
    ELSE "propagate"

FfmpegError(stderr) == <<"ffmpeg error: ">> \o LastN(stderr, 200)

TimeoutError == <<"cut timed out (5 minutes)">>

\* The exceptions open() and _bucket.put_object raise.
LocalFileMissing ==
    [type |-> "FileNotFoundError", message |-> <<"[Errno 2] No such file or directory">>]

UploadExceptions ==
    {[type |-> "RequestError", message |-> <<"Failed to connect to the endpoint">>],
     [type |-> "ServerError", message |-> <<"AccessDenied">>]}

\* What upload_to_oss_from_local(local_path, task_id) can do, given the file at
\* local_path and what put_object does.
UploadRuns(args, file, outcome) ==
    IF file = "absent"
    THEN {[outcome |-> "raise", returned |-> None, exception |-> LocalFileMissing]}
    ELSE IF outcome = "raise"
    THEN {[outcome |-> outcome, returned |-> None, exception |-> e] : e \in UploadExceptions}
    ELSE {[outcome |-> outcome, returned |-> upload_to_oss_from_local(args.task_id, outcome),
           exception |-> NoException]}

\* The dict of _upload_single_segment's try branch; round(x, 1) leaves whole
\* ticks as they are.
UploadSuccess(args, oss_url) ==
    [index |-> args.index, start |-> args.start, end |-> args.end,
     duration |-> args.end - args.start, task_id |-> args.task_id,
     oss_url |-> oss_url, status |-> "success"]

\* The dict of _upload_single_segment's except branch.
UploadFailed(args, e) ==
    [index |-> args.index, start |-> args.start, end |-> args.end,
     duration |-> args.end - args.start, task_id |-> args.task_id,
     oss_url |-> None, status |-> "failed", error |-> Str(e)]

\* subprocess.run(cmd, stdout=PIPE, stderr=PIPE, timeout=300)
RunFfmpeg ==
    /\ task_kind = "cut"
    /\ task_pc = "call"
    /\ \E trim \in TrimOutcomes :
          \E run \in TrimRuns(trim) :
              /\ task_run' = run
              /\ task_file' = FileAfter(trim)
    /\ task_pc' = "ran"
    /\ UNCHANGED <<task_kind, task_args, task_result, stage_pc, stage_results>>
    /\ UNCHANGED not_task_vars

\* `if result.returncode == 0: return {... "status": "success"}`
CutReturnSuccess ==
    /\ task_kind = "cut"
    /\ task_pc = "ran"
    /\ task_run.exception = NoException
    /\ CutSuccessTest(task_run)
    /\ task_result' = CutSuccess(task_args)
    /\ task_pc' = "returned"
    /\ UNCHANGED <<task_kind, task_args, task_file, task_run, stage_pc, stage_results>>
    /\ UNCHANGED not_task_vars

\* `else: ... return {... "status": "failed", "error": f"ffmpeg错误: {error_msg}"}`
CutReturnFfmpegError ==
    /\ task_kind = "cut"
    /\ task_pc = "ran"
    /\ task_run.exception = NoException
    /\ ~CutSuccessTest(task_run)
    /\ task_result' = CutFailed(task_args, FfmpegError(task_run.stderr))
    /\ task_pc' = "returned"
    /\ UNCHANGED <<task_kind, task_args, task_file, task_run, stage_pc, stage_results>>
    /\ UNCHANGED not_task_vars

\* `except subprocess.TimeoutExpired: ...` and `except Exception as e: ...`; an
\* exception neither clause takes leaves the function.
CutExcept ==
    /\ task_kind = "cut"
    /\ task_pc = "ran"
    /\ task_run.exception # NoException
    /\ LET e == task_run.exception
           clause == ExceptClause(e)
       IN  IF clause = "propagate"
           THEN task_pc' = "raised" /\ UNCHANGED task_result
           ELSE /\ task_result' = CutFailed(task_args, IF clause = "timeout"
                                                        THEN TimeoutError ELSE Str(e))
                /\ task_pc' = "returned"
    /\ UNCHANGED <<task_kind, task_args, task_file, task_run, stage_pc, stage_results>>
    /\ UNCHANGED not_task_vars

\* `oss_url = upload_to_oss_from_local(local_path, task_id)`
UploadFromLocal ==
    /\ task_kind = "upload"
    /\ task_pc = "call"
    /\ \E outcome \in UploadOutcomes :
          \E run \in UploadRuns(task_args, task_file, outcome) : task_run' = run
    /\ task_pc' = "ran"
    /\ UNCHANGED <<task_kind, task_args, task_file, task_result, stage_pc, stage_results>>
    /\ UNCHANGED not_task_vars

\* `return {... "oss_url": oss_url, "status": "success"}`
UploadReturnSuccess ==
    /\ task_kind = "upload"
    /\ task_pc = "ran"
    /\ task_run.exception = NoException
    /\ task_result' = UploadSuccess(task_args, task_run.returned)
    /\ task_pc' = "returned"
    /\ UNCHANGED <<task_kind, task_args, task_file, task_run, stage_pc, stage_results>>
    /\ UNCHANGED not_task_vars

\* `except Exception as e: return {... "oss_url": None, "status": "failed", ...}`
UploadExcept ==
    /\ task_kind = "upload"
    /\ task_pc = "ran"
    /\ task_run.exception # NoException
    /\ IF task_run.exception.type \in ExceptionSubclasses
       THEN /\ task_result' = UploadFailed(task_args, task_run.exception)
            /\ task_pc' = "returned"
       ELSE task_pc' = "raised" /\ UNCHANGED task_result
    /\ UNCHANGED <<task_kind, task_args, task_file, task_run, stage_pc, stage_results>>
    /\ UNCHANGED not_task_vars

\* The stage's loop: `result = future.result()`, which re-raises what the task
\* raised, then `cut_results.append(result)` / `upload_results.append(result)`.
StageCollect ==
    /\ stage_pc = "waiting"
    /\ task_pc \in {"returned", "raised"}
    /\ IF task_pc = "raised"
       THEN stage_pc' = "raised" /\ UNCHANGED stage_results
       ELSE /\ stage_results' = Append(stage_results, task_result)
            /\ stage_pc' = "collected"
    /\ UNCHANGED <<task_kind, task_pc, task_args, task_file, task_run, task_result>>
    /\ UNCHANGED not_task_vars

(***************************************************************************)
(* The global pools.  A pool runs at most MAX_WORKERS of the tasks         *)
(* submitted to it at a time; the others wait in its queue.                *)
(***************************************************************************)
Tasks == UNION {{<<r, i>> : i \in SegIndexes(r)} : r \in Runs}

\* A worker process is inside _cut_single_segment: the task runs, or its future
\* already holds BrokenProcessPool while its worker was not terminated yet.
CutExecuting(r, i) == cut_task[r][i] \in {"running", "broken_running"}

\* A faulty RunningCuts: a worker is not given back when its task has finished.
RunningCutsNeverFreed(pool) ==
    {t \in Tasks : /\ process_pool[t[1]] = pool
                   /\ cut_task[t[1]][t[2]] \notin {"none", "queued"}}

RunningCuts(pool) ==
    {t \in Tasks : process_pool[t[1]] = pool /\ CutExecuting(t[1], t[2])}

RunningUploads(pool) ==
    {t \in Tasks : thread_pool[t[1]] = pool /\ upload_task[t[1]][t[2]] = "running"}

\* _get_process_pool, `if _GLOBAL_PROCESS_POOL is None`
GetProcessPoolTest(r) ==
    /\ pc[r] = "call"
    /\ pc' = [pc EXCEPT ![r] = IF GLOBAL_PROCESS_POOL = None
                               THEN "new_process_pool" ELSE "return_process_pool"]
    /\ UNCHANGED <<pool_vars, num_segments, process_pool, thread_pool, temp_dir, cut_task,
                   cut_results, upload_task, upload_results, final_results>>
    /\ UNCHANGED not_pipe_vars

\* _get_process_pool, `_GLOBAL_PROCESS_POOL = ProcessPoolExecutor(max_workers=MAX_WORKERS)`
NewProcessPool(r) ==
    /\ pc[r] = "new_process_pool"
    /\ process_pools_created' = process_pools_created + 1
    /\ GLOBAL_PROCESS_POOL' = process_pools_created + 1
    /\ pc' = [pc EXCEPT ![r] = "return_process_pool"]
    /\ UNCHANGED <<GLOBAL_THREAD_POOL, thread_pools_created, broken_process_pools,
                   num_segments, process_pool,
                   thread_pool,
                   temp_dir, cut_task, cut_results, upload_task, upload_results,
                   final_results>>
    /\ UNCHANGED not_pipe_vars

\* _get_process_pool, `return _GLOBAL_PROCESS_POOL`
ReturnProcessPool(r) ==
    /\ pc[r] = "return_process_pool"
    /\ process_pool' = [process_pool EXCEPT ![r] = GLOBAL_PROCESS_POOL]
    /\ pc' = [pc EXCEPT ![r] = "get_thread_pool"]
    /\ UNCHANGED <<pool_vars, num_segments, thread_pool, temp_dir, cut_task, cut_results,
                   upload_task, upload_results, final_results>>
    /\ UNCHANGED not_pipe_vars

\* _get_thread_pool, `if _GLOBAL_THREAD_POOL is None`
GetThreadPoolTest(r) ==
    /\ pc[r] = "get_thread_pool"
    /\ pc' = [pc EXCEPT ![r] = IF GLOBAL_THREAD_POOL = None
                               THEN "new_thread_pool" ELSE "return_thread_pool"]
    /\ UNCHANGED <<pool_vars, num_segments, process_pool, thread_pool, temp_dir, cut_task,
                   cut_results, upload_task, upload_results, final_results>>
    /\ UNCHANGED not_pipe_vars

\* _get_thread_pool, `_GLOBAL_THREAD_POOL = ThreadPoolExecutor(max_workers=MAX_WORKERS)`
NewThreadPool(r) ==
    /\ pc[r] = "new_thread_pool"
    /\ thread_pools_created' = thread_pools_created + 1
    /\ GLOBAL_THREAD_POOL' = thread_pools_created + 1
    /\ pc' = [pc EXCEPT ![r] = "return_thread_pool"]
    /\ UNCHANGED <<GLOBAL_PROCESS_POOL, process_pools_created, broken_process_pools,
                   num_segments, process_pool,
                   thread_pool,
                   temp_dir, cut_task, cut_results, upload_task, upload_results,
                   final_results>>
    /\ UNCHANGED not_pipe_vars

\* _get_thread_pool, `return _GLOBAL_THREAD_POOL`
ReturnThreadPool(r) ==
    /\ pc[r] = "return_thread_pool"
    /\ thread_pool' = [thread_pool EXCEPT ![r] = GLOBAL_THREAD_POOL]
    /\ pc' = [pc EXCEPT ![r] = "make_temp_dir"]
    /\ UNCHANGED <<pool_vars, num_segments, process_pool, temp_dir, cut_task, cut_results,
                   upload_task, upload_results, final_results>>
    /\ UNCHANGED not_pipe_vars

(***************************************************************************)
(* _cleanup_pools, which atexit calls and which takes no lock: a thread     *)
(* inside _get_process_pool or _get_thread_pool can run between any two of  *)
(* its steps.                                                               *)
(***************************************************************************)
\* _cleanup_pools is called.
CleanupCall ==
    /\ cleanup_pc = "idle"
    /\ cleanup_pc' = "test_process_pool"
    /\ UNCHANGED <<pool_vars, shut_process_pools, shut_thread_pools>>
    /\ UNCHANGED not_cleanup_vars

\* `if _GLOBAL_PROCESS_POOL is not None`
CleanupTestProcessPool ==
    /\ cleanup_pc = "test_process_pool"
    /\ cleanup_pc' = IF GLOBAL_PROCESS_POOL # None
                      THEN "shutdown_process_pool" ELSE "test_thread_pool"
    /\ UNCHANGED <<pool_vars, shut_process_pools, shut_thread_pools>>
    /\ UNCHANGED not_cleanup_vars

\* `_GLOBAL_PROCESS_POOL.shutdown(wait=False)`: only _cleanup_pools assigns None,
\* so the global still names a pool.
CleanupShutdownProcessPool ==
    /\ cleanup_pc = "shutdown_process_pool"
    /\ shut_process_pools' = shut_process_pools \cup {GLOBAL_PROCESS_POOL}
    /\ cleanup_pc' = "clear_process_pool"
    /\ UNCHANGED <<pool_vars, shut_thread_pools>>
    /\ UNCHANGED not_cleanup_vars

\* `_GLOBAL_PROCESS_POOL = None`
CleanupClearProcessPool ==
    /\ cleanup_pc = "clear_process_pool"
    /\ GLOBAL_PROCESS_POOL' = None
    /\ cleanup_pc' = "test_thread_pool"
    /\ UNCHANGED <<GLOBAL_THREAD_POOL, process_pools_created, thread_pools_created,
                   broken_process_pools, shut_process_pools, shut_thread_pools>>
    /\ UNCHANGED not_cleanup_vars

\* `if _GLOBAL_THREAD_POOL is not None`
CleanupTestThreadPool ==
    /\ cleanup_pc = "test_thread_pool"
    /\ cleanup_pc' = IF GLOBAL_THREAD_POOL # None THEN "shutdown_thread_pool" ELSE "done"
    /\ UNCHANGED <<pool_vars, shut_process_pools, shut_thread_pools>>
    /\ UNCHANGED not_cleanup_vars

\* `_GLOBAL_THREAD_POOL.shutdown(wait=False)`
CleanupShutdownThreadPool ==
    /\ cleanup_pc = "shutdown_thread_pool"
    /\ shut_thread_pools' = shut_thread_pools \cup {GLOBAL_THREAD_POOL}
    /\ cleanup_pc' = "clear_thread_pool"
    /\ UNCHANGED <<pool_vars, shut_process_pools>>
    /\ UNCHANGED not_cleanup_vars

\* `_GLOBAL_THREAD_POOL = None`
CleanupClearThreadPool ==
    /\ cleanup_pc = "clear_thread_pool"
    /\ GLOBAL_THREAD_POOL' = None
    /\ cleanup_pc' = "done"
    /\ UNCHANGED <<GLOBAL_PROCESS_POOL, process_pools_created, thread_pools_created,
                   broken_process_pools, shut_process_pools, shut_thread_pools>>
    /\ UNCHANGED not_cleanup_vars

(***************************************************************************)
(* cut_and_upload.                                                         *)
(***************************************************************************)
\* A faulty TemporaryDirectoryExit: the directory is removed on the normal path
\* only.
TemporaryDirectoryExitNormalOnly(dir, raised) == IF raised THEN dir ELSE "deleted"

\* Leaving the with block, normally or by an exception: TemporaryDirectory's
\* __exit__ removes the directory.
TemporaryDirectoryExit(dir, raised) == "deleted"

\* `with tempfile.TemporaryDirectory(prefix="shotcutter_") as temp_dir`
MakeTempDir(r) ==
    /\ pc[r] = "make_temp_dir"
    /\ temp_dir' = [temp_dir EXCEPT ![r] = "exists"]
    /\ pc' = [pc EXCEPT ![r] = "submit_cuts"]
    /\ UNCHANGED <<pool_vars, num_segments, process_pool, thread_pool, cut_task, cut_results,
                   upload_task, upload_results, final_results>>
    /\ UNCHANGED not_pipe_vars

\* An exception leaves cut_and_upload from inside the with block.
RaiseInWith(r) ==
    /\ temp_dir' = [temp_dir EXCEPT ![r] = TemporaryDirectoryExit(@, TRUE)]
    /\ pc' = [pc EXCEPT ![r] = "raised"]

\* process_pool.submit raises BrokenProcessPool.
SubmitRaises(r) == num_segments[r] > 0 /\ process_pool[r] \in broken_process_pools

\* Stage 1: one cut task per segment, submitted to the process pool.
SubmitCuts(r) ==
    /\ pc[r] = "submit_cuts"
    /\ ~SubmitRaises(r)
    /\ cut_task' = [cut_task EXCEPT ![r] = [i \in SegIndexes(r) |-> "queued"]]
    /\ pc' = [pc EXCEPT ![r] = "collect_cuts"]
    /\ UNCHANGED <<pool_vars, num_segments, process_pool, thread_pool, temp_dir, cut_results,
                   upload_task, upload_results, final_results>>
    /\ UNCHANGED not_pipe_vars

\* Stage 1 on a broken pool: the first submit raises.
SubmitCutsRaises(r) ==
    /\ pc[r] = "submit_cuts"
    /\ SubmitRaises(r)
    /\ RaiseInWith(r)
    /\ UNCHANGED <<pool_vars, num_segments, process_pool, thread_pool, cut_task, cut_results,
                   upload_task, upload_results, final_results>>
    /\ UNCHANGED not_pipe_vars

\* A worker of the process pool takes a queued cut task.
StartCut(r, i) ==
    /\ i \in SegIndexes(r)
    /\ cut_task[r][i] = "queued"
    /\ Cardinality(RunningCuts(process_pool[r])) < MAX_WORKERS
    /\ cut_task' = [cut_task EXCEPT ![r][i] = "running"]
    /\ UNCHANGED <<pool_vars, num_segments, pc, process_pool, thread_pool, temp_dir, cut_results,
                   upload_task, upload_results, final_results>>
    /\ UNCHANGED not_pipe_vars

\* _cut_single_segment returns in the worker.
FinishCut(r, i) ==
    /\ i \in SegIndexes(r)
    /\ cut_task[r][i] = "running"
    /\ \E trim \in TrimOutcomes :
          cut_task' = [cut_task EXCEPT
                          ![r][i] = cut_single_segment(OutputPath(r, i), i, trim).status]
    /\ UNCHANGED <<pool_vars, num_segments, pc, process_pool, thread_pool, temp_dir, cut_results,
                   upload_task, upload_results, final_results>>
    /\ UNCHANGED not_pipe_vars

\* The worker process running a cut task dies: the pool is broken for good, and
\* the executor sets BrokenProcessPool on every future it has not finished.  It
\* terminates the other workers only after that, so their tasks are still
\* executing when their futures fail.
WorkerDies(r, i) ==
    /\ i \in SegIndexes(r)
    /\ cut_task[r][i] = "running"
    /\ broken_process_pools' = broken_process_pools \cup {process_pool[r]}
    /\ cut_task' = [q \in Runs |-> [j \in SegIndexes(q) |->
                       IF process_pool[q] # process_pool[r] THEN cut_task[q][j]
                       ELSE IF <<q, j>> = <<r, i>> \/ cut_task[q][j] = "queued" THEN "broken"
                       ELSE IF cut_task[q][j] = "running" THEN "broken_running"
                       ELSE cut_task[q][j]]]
    /\ UNCHANGED <<GLOBAL_PROCESS_POOL, GLOBAL_THREAD_POOL, process_pools_created,
                   thread_pools_created, num_segments, pc, process_pool, thread_pool,
                   temp_dir, cut_results, upload_task, upload_results, final_results>>
    /\ UNCHANGED not_pipe_vars

\* The executor terminates a worker of a broken pool.
TerminateWorker(r, i) ==
    /\ i \in SegIndexes(r)
    /\ cut_task[r][i] = "broken_running"
    /\ cut_task' = [cut_task EXCEPT ![r][i] = "broken"]
    /\ UNCHANGED <<pool_vars, num_segments, pc, process_pool, thread_pool, temp_dir, cut_results,
                   upload_task, upload_results, final_results>>
    /\ UNCHANGED not_pipe_vars

\* The future of a cut task holds BrokenProcessPool.
CutBroken(r, i) == cut_task[r][i] \in {"broken", "broken_running"}

\* `result = future.result()` raises for a future that holds an exception.
CollectCutRaises(r) ==
    /\ pc[r] = "collect_cuts"
    /\ \E i \in SegIndexes(r) \ Indexes(cut_results[r]) : CutBroken(r, i)
    /\ RaiseInWith(r)
    /\ cut_results' = [cut_results EXCEPT ![r] = <<>>]   \* not read again
    /\ UNCHANGED <<pool_vars, num_segments, process_pool, thread_pool, cut_task,
                   upload_task, upload_results, final_results>>
    /\ UNCHANGED not_pipe_vars

\* `for future in as_completed(futures)`: the next finished cut future.
CollectCut(r) ==
    /\ pc[r] = "collect_cuts"
    /\ \E i \in SegIndexes(r) \ Indexes(cut_results[r]) :
          /\ cut_task[r][i] \in {"success", "failed"}
          /\ cut_results' = [cut_results EXCEPT ![r] = Append(@, CutFuture(r, i))]
    /\ UNCHANGED <<pool_vars, num_segments, pc, process_pool, thread_pool, temp_dir, cut_task,
                   upload_task, upload_results, final_results>>
    /\ UNCHANGED not_pipe_vars

\* A faulty CutStageOver: the loop stops at the first failed cut.
CutStageOverFailFast(r) ==
    \/ Indexes(cut_results[r]) = SegIndexes(r)
    \/ \E k \in 1..Len(cut_results[r]) : cut_results[r][k].status = "failed"

\* as_completed(futures) is exhausted: every cut future was yielded.
CutStageOver(r) == Indexes(cut_results[r]) = SegIndexes(r)

\* A faulty success_cuts: every cut result goes on to the upload stage.
success_cuts_unfiltered(results) == results

\* `success_cuts = [r for r in cut_results if r["status"] == "success"]`
success_cuts(results) == SelectSeq2(results, "success")

\* Stage 2: as_completed is exhausted; one upload task per successful cut,
\* submitted to the thread pool.
SubmitUploads(r) ==
    /\ pc[r] = "collect_cuts"
    /\ CutStageOver(r)
    /\ upload_task' = [upload_task EXCEPT ![r] =
           [i \in SegIndexes(r) |->
               IF i \in Indexes(success_cuts(cut_results[r])) THEN "queued" ELSE "none"]]
    /\ cut_results' = [cut_results EXCEPT ![r] = <<>>]   \* not read again
    /\ pc' = [pc EXCEPT ![r] = "collect_uploads"]
    /\ UNCHANGED <<pool_vars, num_segments, process_pool, thread_pool, temp_dir, cut_task,
                   upload_results, final_results>>
    /\ UNCHANGED not_pipe_vars

\* A worker of the thread pool takes a queued upload task.
StartUpload(r, i) ==
    /\ i \in SegIndexes(r)
    /\ upload_task[r][i] = "queued"
    /\ Cardinality(RunningUploads(thread_pool[r])) < MAX_WORKERS
    /\ upload_task' = [upload_task EXCEPT ![r][i] = "running"]
    /\ UNCHANGED <<pool_vars, num_segments, pc, process_pool, thread_pool, temp_dir, cut_task,
                   cut_results, upload_results, final_results>>
    /\ UNCHANGED not_pipe_vars

\* _upload_single_segment returns in the worker.
FinishUpload(r, i) ==
    /\ i \in SegIndexes(r)
    /\ upload_task[r][i] = "running"
    /\ \E outcome \in UploadOutcomes :
          upload_task' = [upload_task EXCEPT ![r][i] = outcome]
    /\ UNCHANGED <<pool_vars, num_segments, pc, process_pool, thread_pool, temp_dir, cut_task,
                   cut_results, upload_results, final_results>>
    /\ UNCHANGED not_pipe_vars

\* `for future in as_completed(futures)`: the next finished upload future.
CollectUpload(r) ==
    /\ pc[r] = "collect_uploads"
    /\ \E i \in SegIndexes(r) \ Indexes(upload_results[r]) :
          /\ upload_task[r][i] \in UploadOutcomes
          /\ upload_results' = [upload_results EXCEPT ![r] = Append(@, UploadFuture(r, i))]
    /\ UNCHANGED <<pool_vars, num_segments, pc, process_pool, thread_pool, temp_dir, cut_task,
                   cut_results, upload_task, final_results>>
    /\ UNCHANGED not_pipe_vars

\* The upload futures of run r: one per submitted upload task.
UploadFutures(r) == {i \in SegIndexes(r) : upload_task[r][i] # "none"}

\* A faulty UploadStageOver: the loop stops at the first upload result.
UploadStageOverAtFirst(r) ==
    \/ Indexes(upload_results[r]) = UploadFutures(r)
    \/ upload_results[r] # <<>>

\* as_completed(futures) is exhausted: every upload future was yielded.
UploadStageOver(r) == Indexes(upload_results[r]) = UploadFutures(r)

\* as_completed is exhausted: leave the with block (the directory is removed),
\* sort the successful uploads by index, drop their status, return.
Return(r) ==
    /\ pc[r] = "collect_uploads"
    /\ UploadStageOver(r)
    /\ temp_dir' = [temp_dir EXCEPT ![r] = TemporaryDirectoryExit(@, FALSE)]
    /\ final_results' = [final_results EXCEPT ![r] = FinalResults(upload_results[r])]
    /\ upload_results' = [upload_results EXCEPT ![r] = <<>>]   \* not read again
    /\ pc' = [pc EXCEPT ![r] = "done"]
    /\ UNCHANGED <<pool_vars, num_segments, process_pool, thread_pool, cut_task, cut_results,
                   upload_task>>
    /\ UNCHANGED not_pipe_vars

\* The segmenter is at rest while the pipeline runs.
SegIdle ==
    /\ shots = <<>>
    /\ max_duration = DefaultMaxDuration
    /\ seg_pc = "done"
    /\ shot_i = 1
    /\ segments = <<>>
    /\ current_start = 0
    /\ accumulated_duration = 0

Init == SegIdle /\ PipeStart /\ TaskIdle /\ PvIdle /\ CfgIdle /\ CmpIdle /\ CleanupIdle

Next ==
    \/ \E r \in Runs :
          \/ GetProcessPoolTest(r)
          \/ NewProcessPool(r)
          \/ ReturnProcessPool(r)
          \/ GetThreadPoolTest(r)
          \/ NewThreadPool(r)
          \/ ReturnThreadPool(r)
          \/ MakeTempDir(r)
          \/ SubmitCuts(r)
          \/ SubmitCutsRaises(r)
          \/ CollectCut(r)
          \/ CollectCutRaises(r)
          \/ SubmitUploads(r)
          \/ CollectUpload(r)
          \/ Return(r)
    \/ \E r \in Runs, i \in AllIndexes :
          \/ StartCut(r, i)
          \/ FinishCut(r, i)
          \/ WorkerDies(r, i)
          \/ TerminateWorker(r, i)
          \/ StartUpload(r, i)
          \/ FinishUpload(r, i)

Spec == Init /\ [][Next]_vars

\* The calling thread r takes its next step; no worker process is lost.
LiveCallerStep(r) ==
    \/ GetProcessPoolTest(r)
    \/ ReturnProcessPool(r)
    \/ GetThreadPoolTest(r)
    \/ ReturnThreadPool(r)
    \/ MakeTempDir(r)
    \/ SubmitCuts(r)
    \/ CollectCut(r)
    \/ SubmitUploads(r)
    \/ CollectUpload(r)
    \/ Return(r)

\* A worker process takes a queued cut, or the ffmpeg run of a cut ends (by its
\* exit or by the 300 s timeout).
ProcessWorkerStep == \E r \in Runs, i \in AllIndexes : StartCut(r, i) \/ FinishCut(r, i)

\* A worker thread takes a queued upload, or the upload call returns or raises.
ThreadWorkerStep == \E r \in Runs, i \in AllIndexes : StartUpload(r, i) \/ FinishUpload(r, i)

\* Two concurrent calls on the shared pools, with more cut tasks than workers.
LiveInit ==
    /\ SegIdle /\ TaskIdle /\ PvIdle /\ CfgIdle /\ CmpIdle /\ CleanupIdle
    /\ num_segments = <<MaxSegs, 1>>
    /\ PoolsMade
    /\ RunsAtCall

LiveNext ==
    \/ \E r \in Runs : LiveCallerStep(r)
    \/ ProcessWorkerStep
    \/ ThreadWorkerStep

\* The pipeline with threads and pool workers that are scheduled fairly and
\* external operations that end.
LiveSpec ==
    /\ LiveInit
    /\ [][LiveNext]_vars
    /\ \A r \in Runs : WF_vars(LiveCallerStep(r))
    /\ WF_vars(ProcessWorkerStep)
    /\ WF_vars(ThreadWorkerStep)

\* The threads acquire the two pools while _cleanup_pools runs once, at any time:
\* on pools an earlier call has made, or before any pool was made.
PoolInit ==
    /\ SegIdle /\ TaskIdle /\ PvIdle /\ CfgIdle /\ CmpIdle /\ CleanupIdle
    /\ num_segments = [r \in Runs |-> 1]
    /\ RunsAtCall
    /\ \/ PoolsMade
       \/ /\ GLOBAL_PROCESS_POOL = None
          /\ GLOBAL_THREAD_POOL = None
          /\ process_pools_created = 0
          /\ thread_pools_created = 0
          /\ broken_process_pools = {}

PoolNext ==
    \/ \E r \in Runs :
          \/ GetProcessPoolTest(r)
          \/ NewProcessPool(r)
          \/ ReturnProcessPool(r)
          \/ GetThreadPoolTest(r)
          \/ NewThreadPool(r)
          \/ ReturnThreadPool(r)
    \/ CleanupCall
    \/ CleanupTestProcessPool
    \/ CleanupShutdownProcessPool
    \/ CleanupClearProcessPool
    \/ CleanupTestThreadPool
    \/ CleanupShutdownThreadPool
    \/ CleanupClearThreadPool

PoolSpec == PoolInit /\ [][PoolNext]_vars

(***************************************************************************)
(* One worker function call on its own, for every args tuple and every     *)
(* behaviour of the external operation.                                    *)
(***************************************************************************)
TaskInit ==
    /\ SegIdle
    /\ PipeStart
    /\ PvIdle
    /\ CfgIdle
    /\ CmpIdle
    /\ CleanupIdle
    /\ \/ /\ task_kind = "cut"
          /\ task_args \in CutArgs
          /\ task_file = "absent"
       \/ /\ task_kind = "upload"
          /\ task_args \in UploadArgs
          /\ task_file \in {"absent", "empty", "nonempty"}
    /\ task_pc = "call"
    /\ task_run = None
    /\ task_result = None
    /\ stage_pc = "waiting"
    /\ stage_results = <<>>

TaskNext ==
    \/ RunFfmpeg
    \/ CutReturnSuccess
    \/ CutReturnFfmpegError
    \/ CutExcept
    \/ UploadFromLocal
    \/ UploadReturnSuccess
    \/ UploadExcept
    \/ StageCollect

TaskSpec == TaskInit /\ [][TaskNext]_vars

(***************************************************************************)
(* utils/shotcutter/__init__.py: process_video and segment_video.  The     *)
(* time_stats of the record are left out.                                  *)
(***************************************************************************)
\* The max_duration arguments a caller passes; nothing in the package rejects a
\* value that is not positive.
PvMaxDurations == (-1)..MaxMaxDuration

\* The shot lists detect_shots returns.
PvShotLists ==
    {ShotsOf(d, 0, 0) : d \in SeqsUpTo(0..(MaxMaxDuration + 1), PvMaxShots)}

\* What handle_video_path(video_path) can do: return the path of an existing
\* local file, raise FileNotFoundError for a missing one, or download a URL to a
\* temporary file (download_video removes the file itself when it fails).
HandleVideoPathOutcomes(video) ==
    IF video = "local_file"
    THEN {[path |-> "video_path", temp |-> "none", exception |-> NoException]}
    ELSE IF video = "missing_file"
    THEN {[path |-> "unset", temp |-> "none",
           exception |-> [type |-> "FileNotFoundError",
                          message |-> <<"video file does not exist: ", "video_path">>]]}
    ELSE {[path |-> "temp_path", temp |-> "exists", exception |-> NoException],
          [path |-> "unset", temp |-> "none",
           exception |-> [type |-> "RuntimeError",
                          message |-> <<"download failed: ", "HTTP 404">>]]}

\* The exceptions TransNetDetector.detect_shots raises.
DetectorExceptions ==
    {[type |-> "ImportError", message |-> <<"cannot load the TransNetV2 model">>],
     [type |-> "RuntimeError", message |-> <<"shot detection failed: ", "cannot open video">>]}

\* ProcessPoolExecutor's exception for a worker process that died.
BrokenProcessPool ==
    [type |-> "BrokenProcessPool",
     message |-> <<"A process in the process pool was terminated abruptly">>]

\* `is_temp_file = local_path != video_path`
IsTempFile(local_path) == local_path # "video_path"

\* `finally: if is_temp_file: cleanup_temp_file(local_path)`
CleanupTempFile(local_path, temp) ==
    IF IsTempFile(local_path) /\ temp = "exists" THEN "removed" ELSE temp

\* segment() does not return: with max_duration <= 0 the first shot that is not
\* absorbed enters `while remaining > self.max_duration`, where remaining never
\* decreases.
SegmentNeverReturns(ss, max) ==
    max <= 0 /\ \E k \in 1..Len(ss) : ss[k].duration > max

\* The failure dict of process_video.
PvFailure(reason) ==
    [status |-> "failure", reason |-> reason, segments |-> <<>>, total |-> 0]

\* A faulty PvSuccess: a call none of whose segments was uploaded is reported as
\* a failure.
PvSuccessOnlyIfAny(results) ==
    [status |-> IF results = <<>> THEN "failure" ELSE "success",
     segments |-> results, total |-> Len(results)]

\* The success dict of process_video.
PvSuccess(results) ==
    [status |-> "success", segments |-> results, total |-> Len(results)]

\* A faulty NoSegments: the empty segmentation is not looked for.
NoSegmentsNever(segs) == FALSE

\* `if not segments`
NoSegments(segs) == segs = <<>>

NoSegmentsReason == <<"no valid segment detected">>

\* What cut_and_upload(local_path, segments, name) returns: the entries of the
\* segments whose cut and upload both succeeded, for any such subset.
CutAndUploadReturns(name, n) ==
    {FinalResults([i \in 1..n |->
                      upload_single_segment(OutputPath(1, i), TaskId(name, i), i,
                                            IF i \in kept THEN "url" ELSE "raise")]) :
        kept \in SUBSET (1..n)}

\* `local_path = handle_video_path(video_path)`, before the try block: what it
\* raises leaves the call.
PvHandleVideoPath ==
    /\ pv_pc = "call"
    /\ pv_calls' = pv_calls \cup {"handle_video_path"}
    /\ \E out \in HandleVideoPathOutcomes(pv_video) :
          IF out.exception = NoException
          THEN /\ pv_local_path' = out.path
               /\ pv_temp_file' = out.temp
               /\ pv_pc' = "detect"
               /\ UNCHANGED pv_exception
          ELSE /\ pv_pc' = "raised"
               /\ pv_exception' = out.exception
               /\ UNCHANGED <<pv_local_path, pv_temp_file>>
    /\ UNCHANGED <<pv_fn, pv_video, pv_result>>
    /\ UNCHANGED <<seg_vars, not_pv_vars>>

\* `shots = detector.detect_shots(local_path)` returns.
PvDetectShots ==
    /\ pv_pc = "detect"
    /\ pv_calls' = pv_calls \cup {"detect_shots"}
    /\ shots' \in PvShotLists
    /\ pv_pc' = "segment"
    /\ UNCHANGED <<pv_fn, pv_video, pv_local_path, pv_temp_file, pv_result, pv_exception>>
    /\ UNCHANGED <<max_duration, seg_pc, shot_i, segments, current_start,
                   accumulated_duration>>
    /\ UNCHANGED not_pv_vars

\* detect_shots raises: process_video's `except Exception` returns the failure
\* dict, segment_video lets it through; both run the finally block.
PvDetectRaises ==
    /\ pv_pc = "detect"
    /\ pv_calls' = pv_calls \cup {"detect_shots"}
    /\ \E e \in DetectorExceptions :
          IF pv_fn = "process_video" /\ e.type \in ExceptionSubclasses
          THEN /\ pv_result' = PvFailure(Str(e))
               /\ pv_pc' = "returned"
               /\ pv_exception' = e
          ELSE /\ pv_exception' = e
               /\ pv_pc' = "raised"
               /\ UNCHANGED pv_result
    /\ pv_temp_file' = CleanupTempFile(pv_local_path, pv_temp_file)
    /\ UNCHANGED <<pv_fn, pv_video, pv_local_path>>
    /\ UNCHANGED <<seg_vars, not_pv_vars>>

\* `segments = segmenter.segment(shots)`; segment_video returns them.
PvSegment ==
    /\ pv_pc = "segment"
    /\ pv_calls' = pv_calls \cup {"segment"}
    /\ IF SegmentNeverReturns(shots, max_duration)
       THEN /\ pv_pc' = "segment_never_returns"
            /\ UNCHANGED <<segments, pv_result, pv_temp_file>>
       ELSE /\ segments' = segment(shots, max_duration)
            /\ IF pv_fn = "segment_video"
               THEN /\ pv_result' = segments'
                    /\ pv_temp_file' = CleanupTempFile(pv_local_path, pv_temp_file)
                    /\ pv_pc' = "returned"
               ELSE /\ pv_pc' = "segmented"
                    /\ UNCHANGED <<pv_result, pv_temp_file>>
    /\ UNCHANGED <<pv_fn, pv_video, pv_local_path, pv_exception>>
    /\ UNCHANGED <<shots, max_duration, seg_pc, shot_i, current_start, accumulated_duration>>
    /\ UNCHANGED not_pv_vars

\* `if not segments: return {"status": "failure", ...}`
PvNoSegments ==
    /\ pv_pc = "segmented"
    /\ NoSegments(segments)
    /\ pv_result' = PvFailure(NoSegmentsReason)
    /\ pv_temp_file' = CleanupTempFile(pv_local_path, pv_temp_file)
    /\ pv_pc' = "returned"
    /\ UNCHANGED <<pv_fn, pv_video, pv_local_path, pv_calls, pv_exception>>
    /\ UNCHANGED <<seg_vars, not_pv_vars>>

\* `results = cut_and_upload(local_path, segments, name)` returns.
PvCutAndUpload ==
    /\ pv_pc = "segmented"
    /\ ~NoSegments(segments)
    /\ pv_calls' = pv_calls \cup {"cut_and_upload"}
    /\ \E results \in CutAndUploadReturns(NameOf(1), Len(segments)) :
          pv_result' = PvSuccess(results)
    /\ pv_temp_file' = CleanupTempFile(pv_local_path, pv_temp_file)
    /\ pv_pc' = "returned"
    /\ UNCHANGED <<pv_fn, pv_video, pv_local_path, pv_exception>>
    /\ UNCHANGED <<seg_vars, not_pv_vars>>

\* cut_and_upload raises (the process pool is broken): `except Exception`.
PvCutAndUploadRaises ==
    /\ pv_pc = "segmented"
    /\ ~NoSegments(segments)
    /\ pv_calls' = pv_calls \cup {"cut_and_upload"}
    /\ IF BrokenProcessPool.type \in ExceptionSubclasses
       THEN /\ pv_result' = PvFailure(Str(BrokenProcessPool))
            /\ pv_pc' = "returned"
            /\ pv_exception' = BrokenProcessPool
       ELSE /\ pv_exception' = BrokenProcessPool
            /\ pv_pc' = "raised"
            /\ UNCHANGED pv_result
    /\ pv_temp_file' = CleanupTempFile(pv_local_path, pv_temp_file)
    /\ UNCHANGED <<pv_fn, pv_video, pv_local_path>>
    /\ UNCHANGED <<seg_vars, not_pv_vars>>

ProcInit ==
    /\ pv_fn \in {"process_video", "segment_video"}
    /\ pv_video \in {"local_file", "missing_file", "url"}
    /\ max_duration \in PvMaxDurations
    /\ pv_pc = "call"
    /\ pv_local_path = "unset"
    /\ pv_temp_file = "none"
    /\ pv_calls = {}
    /\ pv_result = None
    /\ pv_exception = NoException
    /\ shots = <<>>
    /\ SegStart
    /\ PipeStart
    /\ TaskIdle
    /\ CfgIdle
    /\ CmpIdle
    /\ CleanupIdle

ProcNext ==
    \/ PvHandleVideoPath
    \/ PvDetectShots
    \/ PvDetectRaises
    \/ PvSegment
    \/ PvNoSegments
    \/ PvCutAndUpload
    \/ PvCutAndUploadRaises

ProcSpec == ProcInit /\ [][ProcNext]_vars

(***************************************************************************)
(* cutter.py at import: MAX_WORKERS = get_max_workers(), and the size the  *)
(* two pools are then constructed with.                                    *)
(***************************************************************************)
\* The values of SHOTCUTTER_MAX_WORKERS in the environment: unset, or a text.
EnvValues ==
    {[set |-> FALSE, text |-> <<>>]}
    \cup {[set |-> TRUE, text |-> t] :
             t \in {<<>>, <<"8">>, <<"6", "4">>, <<"0">>, <<"-", "1">>, <<"a", "b">>}}

DigitValue ==
    ("0" :> 0) @@ ("1" :> 1) @@ ("2" :> 2) @@ ("3" :> 3) @@ ("4" :> 4) @@
    ("5" :> 5) @@ ("6" :> 6) @@ ("7" :> 7) @@ ("8" :> 8) @@ ("9" :> 9)

IsDigits(t) == t # <<>> /\ \A k \in 1..Len(t) : t[k] \in DOMAIN DigitValue

RECURSIVE DigitsValue(_, _)
DigitsValue(t, acc) ==
    IF t = <<>> THEN acc ELSE DigitsValue(Tail(t), 10 * acc + DigitValue[Head(t)])

\* int(text): the value, or ValueError.
IntOf(t) ==
    IF IsDigits(t) THEN [ok |-> TRUE, value |-> DigitsValue(t, 0)]
    ELSE IF t # <<>> /\ Head(t) = "-" /\ IsDigits(Tail(t))
    THEN [ok |-> TRUE, value |-> 0 - DigitsValue(Tail(t), 0)]
    ELSE [ok |-> FALSE, value |-> 0]

Min(a, b) == IF a <= b THEN a ELSE b

Max(a, b) == IF a >= b THEN a ELSE b

\* `os.cpu_count() or 4`
CpuCountOr4(n) == IF n = None THEN 4 ELSE n

\* A faulty BaseWorkers: the product is rounded to the nearest integer.
BaseWorkersRounded(n) == (6 * n + 5) \div 10

\* `int(cpu_count * 0.6)`: the product truncated.  The double nearest to 0.6 times
\* n is below the next integer by more than the rounding error, and is that
\* integer when n is a multiple of 5, so the result is floor(6n / 10).
BaseWorkers(n) == (6 * n) \div 10

\* `max(2, min(48, workers))`
ClampWorkers(w) == Max(2, Min(48, w))

\* The override: `if env_workers:` and `int(env_workers)`, ValueError passed over.
EnvOverride(w, env) ==
    IF env.set /\ env.text # <<>> /\ IntOf(env.text).ok THEN IntOf(env.text).value ELSE w

\* get_max_workers() as a function of the CPU count and the environment.
get_max_workers(n, env) == EnvOverride(ClampWorkers(BaseWorkers(CpuCountOr4(n))), env)

\* `cpu_count = os.cpu_count() or 4`
ReadCpuCount ==
    /\ cfg_pc = "cpu_count"
    /\ cpu_count' = CpuCountOr4(os_cpu_count)
    /\ cfg_pc' = "base"
    /\ UNCHANGED <<os_cpu_count, env_workers, workers, max_workers, process_pool_workers,
                   thread_pool_workers>>
    /\ UNCHANGED not_cfg_vars

\* `workers = int(cpu_count * 0.6)`
ComputeBase ==
    /\ cfg_pc = "base"
    /\ workers' = BaseWorkers(cpu_count)
    /\ cfg_pc' = "clamp"
    /\ UNCHANGED <<os_cpu_count, env_workers, cpu_count, max_workers, process_pool_workers,
                   thread_pool_workers>>
    /\ UNCHANGED not_cfg_vars

\* `workers = max(2, min(48, workers))`
Clamp ==
    /\ cfg_pc = "clamp"
    /\ workers' = ClampWorkers(workers)
    /\ cfg_pc' = "env"
    /\ UNCHANGED <<os_cpu_count, env_workers, cpu_count, max_workers, process_pool_workers,
                   thread_pool_workers>>
    /\ UNCHANGED not_cfg_vars

\* The environment override.
Override ==
    /\ cfg_pc = "env"
    /\ workers' = EnvOverride(workers, env_workers)
    /\ cfg_pc' = "return"
    /\ UNCHANGED <<os_cpu_count, env_workers, cpu_count, max_workers, process_pool_workers,
                   thread_pool_workers>>
    /\ UNCHANGED not_cfg_vars

\* `MAX_WORKERS = get_max_workers()`
AssignMaxWorkers ==
    /\ cfg_pc = "return"
    /\ max_workers' = workers
    /\ cfg_pc' = "imported"
    /\ UNCHANGED <<os_cpu_count, env_workers, cpu_count, workers, process_pool_workers,
                   thread_pool_workers>>
    /\ UNCHANGED not_cfg_vars

\* The first _get_process_pool(): ProcessPoolExecutor(max_workers=MAX_WORKERS),
\* which raises ValueError for max_workers <= 0.
ConstructProcessPool ==
    /\ cfg_pc = "imported"
    /\ process_pool_workers = None
    /\ IF max_workers > 0
       THEN process_pool_workers' = max_workers /\ UNCHANGED cfg_pc
       ELSE cfg_pc' = "value_error" /\ UNCHANGED process_pool_workers
    /\ UNCHANGED <<os_cpu_count, env_workers, cpu_count, workers, max_workers,
                   thread_pool_workers>>
    /\ UNCHANGED not_cfg_vars

\* The first _get_thread_pool(): ThreadPoolExecutor(max_workers=MAX_WORKERS),
\* which raises ValueError for max_workers <= 0 too.
ConstructThreadPool ==
    /\ cfg_pc = "imported"
    /\ thread_pool_workers = None
    /\ IF max_workers > 0
       THEN thread_pool_workers' = max_workers /\ UNCHANGED cfg_pc
       ELSE cfg_pc' = "value_error" /\ UNCHANGED thread_pool_workers
    /\ UNCHANGED <<os_cpu_count, env_workers, cpu_count, workers, max_workers,
                   process_pool_workers>>
    /\ UNCHANGED not_cfg_vars

CfgInit ==
    /\ os_cpu_count \in {None} \cup 1..MaxCpuCount
    /\ env_workers \in EnvValues
    /\ cfg_pc = "cpu_count"
    /\ cpu_count = None
    /\ workers = None
    /\ max_workers = None
    /\ process_pool_workers = None
    /\ thread_pool_workers = None
    /\ SegIdle
    /\ PipeStart
    /\ TaskIdle
    /\ PvIdle
    /\ CmpIdle
    /\ CleanupIdle

CfgNext ==
    \/ ReadCpuCount
    \/ ComputeBase
    \/ Clamp
    \/ Override
    \/ AssignMaxWorkers
    \/ ConstructProcessPool
    \/ ConstructThreadPool

CfgSpec == CfgInit /\ [][CfgNext]_vars

(***************************************************************************)
(* The two segmenters on one shot list, with the rounding of floating      *)
(* point: a time is a whole number of ticks kept to MantissaBits           *)
(* significant bits, and every sum or difference is rounded to the nearest *)
(* such number (ties to even), as a float operation is to 53 bits.         *)
(***************************************************************************)
RECURSIVE Pow2(_)
Pow2(n) == IF n = 0 THEN 1 ELSE 2 * Pow2(n - 1)

\* The spacing of the representable numbers around x >= 0.
RECURSIVE UlpOf(_, _)
UlpOf(x, u) == IF x < Pow2(MantissaBits) * u THEN u ELSE UlpOf(x, 2 * u)

\* x rounded to the nearest representable number.
Fl(x) ==
    LET u == UlpOf(x, 1)
        q == x \div u
        r == x % u
    IN  IF 2 * r < u THEN q * u
        ELSE IF 2 * r > u THEN (q + 1) * u
        ELSE IF q % 2 = 0 THEN q * u ELSE (q + 1) * u

\* The float operations a + b and a - b.
FAdd(a, b) == Fl(a + b)

FSub(a, b) == Fl(a - b)

\* The detector's shots for the given lengths: each start is the end before it,
\* `duration = end_time - start_time`.
RECURSIVE FloatShots(_, _)
FloatShots(durs, start) ==
    IF durs = <<>> THEN <<>>
    ELSE LET end == FAdd(start, Head(durs))
         IN  <<Shot(start, end, start, end, FSub(end, start))>>
                 \o FloatShots(Tail(durs), end)

\* The Shot invariant in float arithmetic.
FloatShotInvariant(ss) ==
    \A k \in 1..Len(ss) :
        /\ ss[k].duration = FSub(ss[k].end_time, ss[k].start_time)
        /\ ss[k].duration > 0
        /\ ss[k].start_time = (IF k = 1 THEN 0 ELSE ss[k - 1].end_time)

CmpInputs ==
    {[shots |-> FloatShots(d, 0), max |-> m] :
        d \in SeqsUpTo(1..MaxShotDur, MaxShots), m \in 1..MaxMaxDuration}

\* utils/shotcutter: "save the current segment", which moves current_start.
SeamlessClose(st) ==
    IF st.accumulated_duration > 0
    THEN LET current_end == FAdd(st.current_start, st.accumulated_duration)
         IN  LoopState(Append(st.segments, <<st.current_start, current_end>>),
                       current_end, 0)
    ELSE st

\* The while loop of a hard truncation, the same in both segmenters.
RECURSIVE FloatTruncateLoop(_, _, _, _)
FloatTruncateLoop(segs, shot_start, remaining, max) ==
    IF remaining > max
    THEN FloatTruncateLoop(Append(segs, <<shot_start, FAdd(shot_start, max)>>),
                           FAdd(shot_start, max), FSub(remaining, max), max)
    ELSE [segments |-> segs, shot_start |-> shot_start, remaining |-> remaining]

\* utils/shotcutter: the loop body.
SeamlessBody(st, shot, max) ==
    IF FAdd(st.accumulated_duration, shot.duration) <= max
    THEN [st EXCEPT !.accumulated_duration = FAdd(st.accumulated_duration, shot.duration)]
    ELSE IF shot.duration > max
    THEN LET closed == SeamlessClose(st)
             t == FloatTruncateLoop(closed.segments, closed.current_start,
                                    shot.duration, max)
             end == FAdd(t.shot_start, t.remaining)
         IN  IF t.remaining > 0
             THEN LoopState(Append(t.segments, <<t.shot_start, end>>), end, 0)
             ELSE LoopState(t.segments, t.shot_start, 0)
    ELSE LET closed == SeamlessClose(st)
         IN  LoopState(closed.segments, closed.current_start, shot.duration)

RECURSIVE SeamlessLoop(_, _, _)
SeamlessLoop(st, ss, max) ==
    IF ss = <<>> THEN st ELSE SeamlessLoop(SeamlessBody(st, Head(ss), max), Tail(ss), max)

\* utils/shotcutter: SmartSegmenter.segment.
seamless_segment(ss, max) ==
    IF ss = <<>> THEN <<>>
    ELSE SeamlessClose(SeamlessLoop(InitialLoopState, ss, max)).segments

\* src/shotcutter: "save the current segment", which leaves current_start alone.
LegacySave(st) ==
    IF st.accumulated_duration > 0
    THEN Append(st.segments,
                <<st.current_start, FAdd(st.current_start, st.accumulated_duration)>>)
    ELSE st.segments

\* src/shotcutter: _truncate_shot, whose chunks start at the shot's start_time
\* and whose remainder ends at the shot's end_time.
truncate_shot(shot, max) ==
    LET t == FloatTruncateLoop(<<>>, shot.start_time, shot.duration, max)
    IN  IF t.remaining > 0
        THEN Append(t.segments, <<t.shot_start, shot.end_time>>)
        ELSE t.segments

\* A faulty LegacyNewStart: the new segment keeps the start of the closed one.
LegacyNewStartKept(st, shot) == st.current_start

\* src/shotcutter, case 3: `current_start = shot.start_time`
LegacyNewStart(st, shot) == shot.start_time

\* src/shotcutter: the loop body.
LegacyBody(st, shot, max) ==
    IF FAdd(st.accumulated_duration, shot.duration) <= max
    THEN [st EXCEPT !.accumulated_duration = FAdd(st.accumulated_duration, shot.duration)]
    ELSE IF shot.duration > max
    THEN LoopState(LegacySave(st) \o truncate_shot(shot, max), shot.end_time, 0)
    ELSE LoopState(LegacySave(st), LegacyNewStart(st, shot), shot.duration)

RECURSIVE LegacyLoop(_, _, _)
LegacyLoop(st, ss, max) ==
    IF ss = <<>> THEN st ELSE LegacyLoop(LegacyBody(st, Head(ss), max), Tail(ss), max)

\* src/shotcutter: SmartSegmenter.segment.
legacy_segment(ss, max) ==
    IF ss = <<>> THEN <<>> ELSE LegacySave(LegacyLoop(InitialLoopState, ss, max))

CmpInit ==
    /\ \E in \in CmpInputs : cmp_shots = in.shots /\ cmp_max = in.max
    /\ cmp_returned = {}
    /\ seamless_segments = <<>>
    /\ legacy_segments = <<>>
    /\ SegIdle
    /\ PipeStart
    /\ TaskIdle
    /\ PvIdle
    /\ CfgIdle
    /\ CleanupIdle

\* SmartSegmenter(max_duration).segment(shots) of utils/shotcutter.
SegmentSeamless ==
    /\ "seamless" \notin cmp_returned
    /\ seamless_segments' = seamless_segment(cmp_shots, cmp_max)
    /\ cmp_returned' = cmp_returned \cup {"seamless"}
    /\ UNCHANGED <<cmp_shots, cmp_max, legacy_segments>>
    /\ UNCHANGED not_cmp_vars

\* SmartSegmenter(max_duration).segment(shots) of src/shotcutter.
SegmentLegacy ==
    /\ "legacy" \notin cmp_returned
    /\ legacy_segments' = legacy_segment(cmp_shots, cmp_max)
    /\ cmp_returned' = cmp_returned \cup {"legacy"}
    /\ UNCHANGED <<cmp_shots, cmp_max, seamless_segments>>
    /\ UNCHANGED not_cmp_vars

CmpNext == SegmentSeamless \/ SegmentLegacy

CmpSpec == CmpInit /\ [][CmpNext]_vars

(***************************************************************************)
(* Properties of the worker functions.                                     *)
(***************************************************************************)
CutReturned == task_kind = "cut" /\ task_pc = "returned"

\* The trim exited with status 0.
TrimExitedZero == task_run.exception = NoException /\ task_run.returncode = 0

\* C11: a cut task reports status "success" only if the trim returned a success
\* status and the destination file exists and is non-empty; a trim that exits
\* with status 0 but leaves no file or an empty file is reported as "failed".
C11_CutSuccessCriterion ==
    CutReturned =>
        /\ task_result.status = "success" => (TrimExitedZero /\ task_file = "nonempty")
        /\ (TrimExitedZero /\ task_file \in {"absent", "empty"})
              => task_result.status = "failed"

UploadReturned == task_kind = "upload" /\ task_pc = "returned"

\* C12: an upload task reports status "failed" with oss_url None and a captured
\* error whenever the upload operation raises or returns a non-success status; it
\* reports "success" only when the operation produced a remote URL.
C12_UploadFailureReported ==
    UploadReturned =>
        /\ task_run.outcome \in {"raise", "status_code"}
              => /\ task_result.status = "failed"
                 /\ task_result.oss_url = None
                 /\ "error" \in DOMAIN task_result
        /\ task_result.status = "success" => task_run.outcome = "url"

TrimFailureModes == {"nonzero", "timeout", "exception"}

\* C13: for each of the three trim failure modes (non-zero exit status, exception
\* raised, 300 s timeout expired) the cut task returns a record with status
\* "failed", path None, a non-empty error message and the segment's own index,
\* start and end; no exception escapes the cut task or the cut stage, which
\* collects the record.
C13_TrimFailureCaptured ==
    task_kind = "cut" =>
        /\ task_pc # "raised"
        /\ stage_pc # "raised"
        /\ (task_pc = "returned" /\ task_run.outcome \in TrimFailureModes)
              => /\ task_result.status = "failed"
                 /\ task_result.path = None
                 /\ task_result.error # <<>>
                 /\ task_result.index = task_args.index
                 /\ task_result.start = task_args.start
                 /\ task_result.end = task_args.end
        /\ stage_pc = "collected" => stage_results = <<task_result>>

\* A trim that ran into the timeout was reported and collected as a failed record
\* of segment 2.
C13_Witness ==
    /\ task_kind = "cut"
    /\ stage_pc = "collected"
    /\ task_run.outcome = "timeout"
    /\ task_args.index = 2
    /\ stage_results[1].status = "failed"

(***************************************************************************)
(* Properties of the pools and of cut_and_upload.                          *)
(***************************************************************************)
\* The trim of segment i of run r succeeded, as _cut_single_segment reports it.
CutSucceeded(r, i) == cut_task[r][i] = "success"

\* The upload of segment i of run r succeeded: the operation returned a remote URL.
UploadSucceeded(r, i) == upload_task[r][i] = "url"

StrictlyIncreasing(results) ==
    \A k \in 1..(Len(results) - 1) : results[k].index < results[k + 1].index

\* C1: whatever cuts and uploads fail and in whatever order the tasks complete,
\* the returned list is strictly increasing by index and holds an entry for
\* index i if and only if both the cut and the upload of segment i succeeded.
C1_ReturnedList ==
    \A r \in Runs :
        pc[r] = "done" =>
            /\ StrictlyIncreasing(final_results[r])
            /\ \A i \in SegIndexes(r) :
                  i \in Indexes(final_results[r])
                      <=> (CutSucceeded(r, i) /\ UploadSucceeded(r, i))

\* C9: with no shutdown in between, any interleaving of concurrent calls of
\* _get_process_pool (of _get_thread_pool) constructs exactly one pool of that
\* kind, and every caller receives that same handle.
C9_OnePoolOfEachKind ==
    /\ process_pools_created <= 1
    /\ thread_pools_created <= 1
    /\ \A r1, r2 \in Runs :
          /\ (process_pool[r1] # None /\ process_pool[r2] # None)
                => process_pool[r1] = process_pool[r2]
          /\ (thread_pool[r1] # None /\ thread_pool[r2] # None)
                => thread_pool[r1] = thread_pool[r2]

\* C30: for any interleaving of _get_process_pool or _get_thread_pool calls with
\* _cleanup_pools, an acquire call never returns None or a pool on which
\* shutdown has already been invoked.
C30_AcquireNeverStale ==
    [][\A r \in Runs :
          /\ (pc[r] = "return_process_pool" /\ pc'[r] = "get_thread_pool")
                => /\ process_pool'[r] # None
                   /\ process_pool'[r] \notin shut_process_pools
          /\ (pc[r] = "return_thread_pool" /\ pc'[r] = "make_temp_dir")
                => /\ thread_pool'[r] # None
                   /\ thread_pool'[r] \notin shut_thread_pools]_vars

AllRunningCuts == {t \in Tasks : CutExecuting(t[1], t[2])}

AllRunningUploads == {t \in Tasks : upload_task[t[1]][t[2]] = "running"}

\* C10: across all runs executing concurrently in the process, never more than
\* MAX_WORKERS trim tasks execute at the same time, and never more than
\* MAX_WORKERS upload tasks (which is what sharing one pool of each kind between
\* the runs is for).
C10_WorkerCap ==
    /\ Cardinality(AllRunningCuts) <= MAX_WORKERS
    /\ Cardinality(AllRunningUploads) <= MAX_WORKERS

\* C14: for a list of n segments cut_and_upload submits exactly n trim tasks, one
\* per index 1..n, and collects exactly n cut results, one per index, whatever
\* subset of them fails or times out; a failed cut never ends the stage, and every
\* collected record is the one of its own task.
C14_AllCutsAttempted ==
    /\ [][\A r \in Runs :
            (pc[r] = "submit_cuts" /\ pc'[r] = "collect_cuts")
                => cut_task'[r] = [i \in 1..num_segments[r] |-> "queued"]]_vars
    /\ [][\A r \in Runs :
            (pc[r] = "collect_cuts" /\ pc'[r] = "collect_uploads")
                => /\ Len(cut_results[r]) = num_segments[r]
                   /\ Indexes(cut_results[r]) = 1..num_segments[r]]_vars
    /\ [][\A r \in Runs :
            (pc[r] = "collect_cuts" /\ pc'[r] = "raised")
                => process_pool[r] \in broken_process_pools]_vars
    /\ [](\A r \in Runs :
            /\ Cardinality(Indexes(cut_results[r])) = Len(cut_results[r])
            /\ \A k \in 1..Len(cut_results[r]) :
                  /\ cut_results[r][k].index \in 1..num_segments[r]
                  /\ cut_results[r][k].status = cut_task[r][cut_results[r][k].index])

\* The run of three segments went on to stage 2 after the cut of segment 2 failed
\* and the other two succeeded.
C14_Witness ==
    /\ num_segments[1] = 3
    /\ pc[1] = "collect_uploads"
    /\ cut_task[1][1] = "success"
    /\ cut_task[1][2] = "failed"
    /\ cut_task[1][3] = "success"
    /\ upload_task[1][2] = "none"
    /\ upload_task[1][3] # "none"

\* C15: the task_id of every upload is name + "-" + i, where i is the segment's
\* original 1-based position in the input list (not its rank among the
\* successfully cut segments), so the task ids of a run are pairwise distinct and
\* equal name-<index> of the returned entry.
C15_TaskIdNaming ==
    \A r \in Runs :
        /\ \A k \in 1..Len(upload_results[r]) :
              upload_results[r][k].task_id = TaskId(NameOf(r), upload_results[r][k].index)
        /\ \A k \in 1..Len(final_results[r]) :
              /\ final_results[r][k].task_id = TaskId(NameOf(r), final_results[r][k].index)
              /\ final_results[r][k].index \in 1..num_segments[r]
              /\ \A j \in 1..Len(final_results[r]) :
                    j # k => final_results[r][j].task_id # final_results[r][k].task_id

\* The cut of segment 1 failed and the run returned the entries of segments 2
\* and 3 under their own names.
C15_Witness ==
    /\ num_segments[1] = 3
    /\ pc[1] = "done"
    /\ cut_task[1][1] = "failed"
    /\ Len(final_results[1]) = 2
    /\ final_results[1][1].task_id = TaskId(NameOf(1), 2)
    /\ final_results[1][2].task_id = TaskId(NameOf(1), 3)

\* Where a call is inside the with block.
InsideWith == {"submit_cuts", "collect_cuts", "collect_uploads"}

\* C16: every execution of cut_and_upload that allocated a scratch directory has
\* released it when control leaves cut_and_upload, on every exit path: the normal
\* return, and an exception raised while submitting tasks or collecting results.
C16_ScratchReleased ==
    \A r \in Runs :
        /\ (pc[r] \in {"done", "raised"} /\ temp_dir[r] # "none") => temp_dir[r] = "deleted"
        /\ temp_dir[r] = "exists" <=> pc[r] \in InsideWith

\* Run 2 returned normally and run 1 was left by the exception of a broken cut
\* future; both had made their directory.
C16_Witness ==
    /\ pc[1] = "raised"
    /\ \E i \in SegIndexes(1) : cut_task[1][i] = "broken"
    /\ pc[2] = "done"
    /\ final_results[2] # <<>>
    /\ temp_dir[1] = "deleted"
    /\ temp_dir[2] = "deleted"

\* A cut or an upload task has finished: its future holds a result.
CutFinished(r, i) == cut_task[r][i] \in {"success", "failed"}

UploadFinished(r, i) == upload_task[r][i] \in UploadOutcomes

\* C21: within one run of cut_and_upload no upload task is submitted before every
\* cut task of the run has completed and had its result collected, and the run
\* does not return before every upload task it submitted has completed (and was
\* collected).
C21_StageBarrier ==
    /\ [][\A r \in Runs : \A i \in SegIndexes(r) :
            (upload_task[r][i] = "none" /\ upload_task'[r][i] # "none")
                => \A j \in SegIndexes(r) :
                      CutFinished(r, j) /\ j \in Indexes(cut_results[r])]_vars
    /\ [][\A r \in Runs :
            (pc[r] # "done" /\ pc'[r] = "done")
                => \A i \in SegIndexes(r) :
                      upload_task[r][i] # "none"
                          => UploadFinished(r, i) /\ i \in Indexes(upload_results[r])]_vars
    /\ [](\A r \in Runs :
            /\ (\E i \in SegIndexes(r) : upload_task[r][i] # "none")
                  => \A j \in SegIndexes(r) : CutFinished(r, j)
            /\ pc[r] = "done"
                  => \A i \in SegIndexes(r) :
                        upload_task[r][i] = "none" \/ UploadFinished(r, i))

\* The run of three segments returned after its three uploads while the other
\* run was still calling.
C21_Witness ==
    /\ num_segments[1] = 3
    /\ pc[1] = "done"
    /\ \A i \in SegIndexes(1) : UploadFinished(1, i)
    /\ pc[2] # "done"

\* The states an upload task goes through: submitted once, taken by a worker
\* once (the invocation of the upload operation), finished once.
UploadTaskSteps ==
    {<<"none", "queued">>, <<"queued", "running">>}
        \cup {<<"running", outcome>> : outcome \in UploadOutcomes}

\* C22: in cut_and_upload the upload operation is invoked exactly once for every
\* segment whose cut result has status success and never for a segment whose cut
\* failed; with 3 segments and a failed cut of segment 2, uploads are attempted
\* for segments 1 and 3 only, and when both return their URL the result has
\* exactly the indices {1, 3}.
C22_UploadsOnlySuccessfulCuts ==
    /\ [][\A r \in Runs : \A i \in SegIndexes(r) :
            upload_task'[r][i] # upload_task[r][i]
                => <<upload_task[r][i], upload_task'[r][i]>> \in UploadTaskSteps]_vars
    /\ [](\A r \in Runs : \A i \in SegIndexes(r) :
            /\ cut_task[r][i] # "success" => upload_task[r][i] = "none"
            /\ (pc[r] = "collect_uploads" /\ CutSucceeded(r, i))
                  => upload_task[r][i] # "none"
            /\ (pc[r] = "done" /\ CutSucceeded(r, i)) => UploadFinished(r, i)
            /\ (pc[r] = "done" /\ i \in Indexes(final_results[r])) => CutSucceeded(r, i))
    /\ [](\A r \in Runs :
            (/\ pc[r] = "done"
             /\ num_segments[r] = 3
             /\ CutSucceeded(r, 1) /\ cut_task[r][2] = "failed" /\ CutSucceeded(r, 3)
             /\ UploadSucceeded(r, 1) /\ UploadSucceeded(r, 3))
                => /\ Indexes(final_results[r]) = {1, 3}
                   /\ Len(final_results[r]) = 2)

\* Three segments, the cut of segment 2 failed, segments 1 and 3 were uploaded and
\* the run returned their two entries.
C22_Witness ==
    /\ num_segments[1] = 3
    /\ pc[1] = "done"
    /\ cut_task[1][2] = "failed"
    /\ upload_task[1][2] = "none"
    /\ UploadSucceeded(1, 1) /\ UploadSucceeded(1, 3)
    /\ Indexes(final_results[1]) = {1, 3}

\* A task of run r is still queued or executing.
TaskPending(r, i) ==
    \/ cut_task[r][i] = "queued"
    \/ CutExecuting(r, i)
    \/ upload_task[r][i] \in {"queued", "running"}

\* C23: for any interleaving of concurrent runs, including runs that leave
\* cut_and_upload with an exception, every trim or upload task touches only files
\* inside the scratch directory of the run that submitted it, and a run's scratch
\* directory is never deleted while a task submitted by that run is still queued
\* or executing.
C23_ScratchOwnership ==
    \A r \in Runs :
        /\ \A k \in 1..Len(cut_results[r]) :
              cut_results[r][k].status = "success"
                  => cut_results[r][k].path = OutputPath(r, cut_results[r][k].index)
        /\ \A q \in Runs \ {r} : \A i \in SegIndexes(r), j \in SegIndexes(q) :
              OutputPath(r, i) # OutputPath(q, j)
        /\ temp_dir[r] = "deleted" => \A i \in SegIndexes(r) : ~TaskPending(r, i)

\* No worker process of a pool was lost.
NoWorkerLost == broken_process_pools = {}

\* C24: if every trim invocation eventually returns, fails or hits its timeout,
\* every upload invocation eventually returns or raises, and the pool workers are
\* scheduled fairly, then every invocation of cut_and_upload eventually returns,
\* for concurrent runs sharing the two pools (no shutdown occurring).
C24_EveryCallReturns == <>(\A r \in Runs : pc[r] = "done")

\* Both concurrent runs returned; their cut tasks, one more than the pool has
\* workers, were all served.
C24_Witness ==
    /\ NoWorkerLost
    /\ \A r \in Runs : pc[r] = "done"
    /\ num_segments[2] = 1
    /\ num_segments[1] + num_segments[2] > MAX_WORKERS
    /\ \A r \in Runs : \A i \in SegIndexes(r) : CutFinished(r, i)

\* The entry of segment n of run r, from the run's name and the outcome of the
\* segment's own upload.
OwnEntry(r, n) ==
    [index |-> n,
     task_id |-> TaskId(NameOf(r), n),
     oss_url |-> upload_to_oss_from_local(TaskId(NameOf(r), n), upload_task[r][n])]

\* The entries of the segments 1..n of run r whose cut succeeded and whose
\* upload call returned, by increasing index.
RECURSIVE OwnEntries(_, _)
OwnEntries(r, n) ==
    IF n = 0 THEN <<>>
    ELSE OwnEntries(r, n - 1)
            \o (IF CutSucceeded(r, n) /\ upload_task[r][n] \in {"url", "status_code"}
                THEN <<OwnEntry(r, n)>> ELSE <<>>)

\* C25: the list a run of cut_and_upload returns is a function only of the run's
\* segments, its name prefix and the outcome of each of its own tasks: whatever
\* the order in which the tasks completed and however the tasks of other
\* concurrent runs interleaved on the shared pools, it is the same list.
C25_ResultDeterminedByOwnOutcomes ==
    \A r \in Runs : pc[r] = "done" => final_results[r] = OwnEntries(r, num_segments[r])

\* Two runs that shared both pools have returned, each with an entry for every
\* one of its segments.
C25_Witness ==
    /\ \A r \in Runs :
          /\ pc[r] = "done"
          /\ num_segments[r] > 0
          /\ Len(final_results[r]) = num_segments[r]
    /\ process_pool[1] = process_pool[2]
    /\ thread_pool[1] = thread_pool[2]

\* cut_video for the segments 1..n of run r, given the same trim outcomes: the
\* paths of the successful cuts in index order, the failed ones filtered out.
RECURSIVE cut_video(_, _)
cut_video(r, n) ==
    IF n = 0 THEN <<>>
    ELSE cut_video(r, n - 1) \o (IF CutSucceeded(r, n) THEN <<OutputPath(r, n)>> ELSE <<>>)

\* The segment a path of run r holds.
SegmentOfPath(path) == path[4]

\* upload_segments for the first k paths, given the same upload outcome for each
\* segment's file: index and task_id count the paths, and a raised upload
\* is left out.
RECURSIVE upload_segments(_, _, _, _)
upload_segments(segment_paths, name, r, k) ==
    IF k = 0 THEN <<>>
    ELSE LET outcome == upload_task[r][SegmentOfPath(segment_paths[k])]
             result == upload_single_segment(segment_paths[k], TaskId(name, k), k, outcome)
         IN  upload_segments(segment_paths, name, r, k - 1)
                 \o (IF result.status = "success" THEN <<PopStatus(result)>> ELSE <<>>)

\* C27: for the same video, segments, name and per-segment trim and upload
\* outcomes, upload_segments(cut_video(video, segments), name) returns entries
\* with the same index, task_id and remote URL as cut_and_upload(video, segments,
\* name), including when some cuts fail.
C27_LegacyComposition ==
    \A r \in Runs :
        pc[r] = "done" =>
            LET paths == cut_video(r, num_segments[r])
            IN  upload_segments(paths, NameOf(r), r, Len(paths)) = final_results[r]

(***************************************************************************)
(* Properties of process_video and segment_video.                          *)
(***************************************************************************)
PvReturned == pv_fn = "process_video" /\ pv_pc = "returned"

\* C17: for every outcome of video path acquisition, shot detection,
\* segmentation, cutting and uploading, process_video returns (never raises) a
\* record whose status is "success" or "failure", with a segments list and
\* total = len(segments).
C17_AlwaysARecord ==
    pv_fn = "process_video" =>
        /\ pv_pc # "raised"
        /\ pv_pc = "returned"
              => /\ pv_result.status \in {"success", "failure"}
                 /\ pv_result.total = Len(pv_result.segments)

\* C18: segment() returns the empty list for an empty shot list and any
\* max_duration > 0, and whenever the segmentation is empty or the shot detector
\* raised, process_video returns status "failure" with a non-empty reason,
\* segments = [] and total = 0, without invoking cut_and_upload.
C18_RunLevelFailure ==
    /\ ("segment" \in pv_calls /\ shots = <<>> /\ max_duration > 0
          /\ pv_pc \in {"segmented", "returned"}) => segments = <<>>
    /\ (PvReturned /\ segments = <<>>)
          => /\ pv_result.status = "failure"
             /\ pv_result.reason # <<>>
             /\ pv_result.segments = <<>>
             /\ pv_result.total = 0
             /\ "cut_and_upload" \notin pv_calls
    /\ (pv_fn = "process_video" /\ "cut_and_upload" \in pv_calls) => segments # <<>>

\* process_video returned the failure record after segment() was given the shot
\* list of a downloaded video whose shots are all of length zero.
C18_Witness ==
    /\ PvReturned
    /\ "segment" \in pv_calls
    /\ Len(shots) = PvMaxShots
    /\ max_duration > 0
    /\ segments = <<>>
    /\ pv_result.reason = NoSegmentsReason
    /\ pv_temp_file = "removed"

\* C19: process_video and segment_video reject max_duration <= 0 with a
\* validation error before any path acquisition, shot detection, segmentation,
\* cutting or uploading, so segment() is never entered with max_duration <= 0.
C19_RejectsNonPositive ==
    (pv_fn \in {"process_video", "segment_video"} /\ max_duration <= 0)
        => /\ pv_calls = {}
           /\ pv_pc \in {"call", "raised"}
           /\ pv_pc = "raised" => pv_exception.type = "ValueError"

\* segment() returned the empty list.
SegmentationEmpty == "segment" \in pv_calls /\ segments = <<>>

\* An exception was raised inside the try block (in detection, segmentation or
\* cut_and_upload) and caught by `except Exception`.
RaisedInTry == pv_exception # NoException

\* C29: process_video returns status "failure" exactly when the segmentation is
\* empty or an exception was raised during detection, segmentation or
\* cut_and_upload; whenever the segmentation is not empty and cut_and_upload
\* returns, the status is "success" with total equal to the number of returned
\* entries, even when that number is 0.
C29_FailureExactlyWhen ==
    PvReturned =>
        /\ pv_result.status = "failure" <=> (SegmentationEmpty \/ RaisedInTry)
        /\ (~SegmentationEmpty /\ ~RaisedInTry)
              => /\ "cut_and_upload" \in pv_calls
                 /\ pv_result.status = "success"
                 /\ pv_result.total = Len(pv_result.segments)
                 /\ pv_result.total <= Len(segments)

\* process_video returned "success" with total 0: the segmentation was not empty
\* and cut_and_upload returned no entry for any of its segments.
C29_Witness ==
    /\ PvReturned
    /\ Len(segments) >= 2
    /\ "cut_and_upload" \in pv_calls
    /\ ~RaisedInTry
    /\ pv_result.status = "success"
    /\ pv_result.total = 0

\* process_video returned "failure" because cut_and_upload raised on a segmentation
\* that was not empty.
C29_WitnessRaised ==
    /\ PvReturned
    /\ segments # <<>>
    /\ pv_exception = BrokenProcessPool
    /\ pv_result.status = "failure"

(***************************************************************************)
(* Properties of the worker count.                                         *)
(***************************************************************************)
BothPoolsMade == process_pool_workers # None /\ thread_pool_workers # None

NoOverride == ~env_workers.set

\* clamp(x, 2, 48)
ClampTo2And48(x) == IF x < 2 THEN 2 ELSE IF x > 48 THEN 48 ELSE x

\* round(0.6 * n): 6n / 10 is never halfway between two integers.
RoundOf06(n) == (6 * n + 5) \div 10

\* floor(0.6 * n)
FloorOf06(n) == (6 * n) \div 10

\* C20 as stated: with no override configured, the worker count of both pools
\* equals clamp(round(0.6 * n), 2, 48) for every logical CPU count n >= 1, and
\* the CPU-bound pool and the IO-bound pool always have the same worker count.
C20_WorkerCountRounded ==
    BothPoolsMade =>
        /\ (NoOverride /\ os_cpu_count # None)
              => process_pool_workers = ClampTo2And48(RoundOf06(os_cpu_count))
        /\ thread_pool_workers = process_pool_workers

\* C20 as amended: with no override configured, the worker count of both pools
\* equals clamp(floor(0.6 * n), 2, 48) for every logical CPU count n >= 1, and
\* the two pools always have the same worker count.
C20_WorkerCountTruncated ==
    BothPoolsMade =>
        /\ (NoOverride /\ os_cpu_count # None)
              => process_pool_workers = ClampTo2And48(FloorOf06(os_cpu_count))
        /\ thread_pool_workers = process_pool_workers

\* Both pools were made on a machine of six CPUs with no override: three workers
\* each, where rounding 3.6 would give four.
C20_Witness ==
    /\ BothPoolsMade
    /\ NoOverride
    /\ os_cpu_count = 6
    /\ process_pool_workers = 3
    /\ thread_pool_workers = 3


(***************************************************************************)
(* Properties of the two segmenters.                                       *)
(***************************************************************************)
BothReturned == cmp_returned = {"seamless", "legacy"}

\* No sum of times of the run is rounded: every time up to the end of the last
\* shot is representable.
NoRounding(ss) == ss = <<>> \/ ss[Len(ss)].end_time <= Pow2(MantissaBits)

\* C28 as stated: for every shot list satisfying the Shot invariant (ordered,
\* contiguous from 0, duration = end_time - start_time) and every max_duration
\* > 0, the legacy segment of src/shotcutter and the seamless segment of
\* utils/shotcutter return identical segment lists.
C28_SegmentersIdentical ==
    (BothReturned /\ FloatShotInvariant(cmp_shots) /\ cmp_max > 0)
        => legacy_segments = seamless_segments

\* C28 as amended: the two lists have the same length and the same first
\* segment start, and they are identical (and equal to the exact segmentation)
\* whenever no sum of times is rounded.
C28_SegmentersIdenticalUnrounded ==
    (BothReturned /\ FloatShotInvariant(cmp_shots) /\ cmp_max > 0)
        => /\ Len(legacy_segments) = Len(seamless_segments)
           /\ NoRounding(cmp_shots)
                 => /\ legacy_segments = seamless_segments
                    /\ seamless_segments = segment(cmp_shots, cmp_max)

\* Both segmenters returned the same three segments for a short shot followed by
\* an oversize one that is cut in two, no sum being rounded.
C28_Witness ==
    /\ BothReturned
    /\ NoRounding(cmp_shots)
    /\ Len(cmp_shots) = 2
    /\ cmp_shots[1].duration <= cmp_max
    /\ cmp_shots[2].duration > cmp_max
    /\ Len(seamless_segments) = 3
    /\ legacy_segments = seamless_segments

=============================================================================
